---- MODULE Spec2Model ----
(***************************************************************************)
(* A model of marlin::pubsub::PubSubNode (PubSubNode.hpp): the slot sets,  *)
(* the blacklist, the message-id dedup ring, the ordinary MESSAGE path,    *)
(* the cut-through path, and a mesh of relaying nodes.                     *)
(*                                                                         *)
(* A node is a record (the fields of the C++ object plus the trace `out`   *)
(* of what the running handler did).  Every handler of the class is an     *)
(* operator from node record to node record, written in the order of the   *)
(* C++ statements; the actions apply one handler to the current node.      *)
(* Specifications:                                                         *)
(*   Spec      slot management, blacklist, timers (one node), traced       *)
(*   SpecSlots the same handlers without the trace                         *)
(*   SpecPromote Spec with a fair peer selection timer and delegate        *)
(*   SpecBlacklist the same handlers with the history of the blacklist     *)
(*   SpecMsg   ordinary MESSAGE path and publish (one node)                *)
(*   SpecCut   cut-through path (one node)                                 *)
(*   SpecBytes cut-through path with the bytes of the frame (one node)     *)
(*   SpecRing  the 256-bucket dedup ring over many ticks (one node)        *)
(*   SpecMesh  several relaying nodes exchanging one published message     *)
(*   SpecMeshFair SpecMesh with every frame on the wire delivered          *)
(*   SpecFramer the length framing fiber of one stream                     *)
(*   SpecAbci  the Abci client: reconnect timer and response decoder       *)
(***************************************************************************)
EXTENDS Integers, Sequences, FiniteSets, TLC

\* ---------------------------------------------------------------- bounds
NumTransports == 3      \* remote addresses a node can have a transport to
MaxCap == 2             \* max_sol_conns and max_unsol_conns range over 0..MaxCap
NumIds == 2             \* distinct message ids on the wire
NumChannels == 2        \* size of delegate->channels
MaxWitness == 1          \* keys in the witness of an incoming message
MaxTicks == 1           \* dedup ticks in the specifications that bound them
NumStreams == 1         \* stream ids of one transport that carry a cut-through frame
MaxSessions == 1        \* (transport, stream id) pairs that ever carry a cut-through frame
PayloadLen == 140000    \* payload bytes of a frame whose bytes are followed (SpecBytes)
MaxFrames == 3          \* frames of the stream a framing fiber reads (SpecFramer)
MaxFrameLen == 3        \* bytes of one such frame
MaxBlocks == 2          \* analyze_block calls of an Abci client
MaxResponses == 2       \* responses the RPC server writes
MaxDisconnects == 8     \* disconnects of an Abci client without a connect between them
NumRingIds == 1         \* message ids followed around the whole dedup ring (SpecRing)

\* ------------------------------------------------------ program constants
RingSize == 256                 \* message_id_events(256), uint8_t message_id_idx
CutThroughThreshold == 50000    \* if(size > 50000)

Transports == 1..NumTransports
MessageIds == 1..NumIds
Channels == 1..NumChannels
Caps == 0..MaxCap
NoTransport == 0

\* A transport is looked up by its remote address (transport_manager.get(addr)),
\* so a transport and its dst_addr are the same value here.
dst_addr(t) == t

\* The remote static public key of a transport's peer: one key per peer.
\* A public key is named by the address of the node that holds it; a node
\* that stands alone has address 0 (SelfKey).
get_remote_static_pk(t) == t
SelfKey == 0
Keys == 0..NumTransports
StreamIds == 1..NumStreams

\* A witness header: the sequence of 32-byte public keys it holds.
RECURSIVE SeqsUpTo(_, _)
SeqsUpTo(S, n) ==
    IF n = 0 THEN {<<>>}
    ELSE LET shorter == SeqsUpTo(S, n - 1)
         IN shorter \cup {Append(q, x) : q \in {r \in shorter : Len(r) = n - 1}, x \in S}
Witnesses == SeqsUpTo(Keys, MaxWitness)

\* Payload sizes on both sides of the cut-through threshold.
Sizes == {CutThroughThreshold, CutThroughThreshold + 1}

VARIABLES
    max_sol_conns, max_unsol_conns,   \* constructor arguments
    accept_unsol_conn, enable_relay,  \* template parameters
    keys,                             \* the node's static key (named by its public key)
    transports,                       \* transport_manager: addr -> "none" | "dialing" | "active"
    sol_conns, sol_standby_conns, unsol_conns,
    blacklist_addr,
    message_id_set, message_id_events, message_id_idx,
    cut_through_map, cut_through_length, cut_through_header_recv,
    cut_through_used_ids,             \* per ingress transport: stream ids in cut-through mode
    out,                              \* what the last handler did, in order
    ret,                              \* what the last handler returned
    last,                             \* the last handler and its arguments
    mesh, inflight,                   \* SpecMesh: node records and messages on the wire
    age,                              \* history: per inserted id (SpecRing) or blacklisted
                                      \* address (SpecBlacklist), the dedup ticks since
    framer,                           \* SpecFramer: the length framing fiber of one stream
    abci                              \* SpecAbci: the Abci client of the near bridge

nodeVars == <<max_sol_conns, max_unsol_conns, accept_unsol_conn, enable_relay, keys,
              transports, sol_conns, sol_standby_conns, unsol_conns, blacklist_addr,
              message_id_set, message_id_events, message_id_idx,
              cut_through_map, cut_through_length, cut_through_header_recv,
              cut_through_used_ids, out, ret>>
vars == <<nodeVars, last, mesh, inflight, age, framer, abci>>

\* ------------------------------------------------------------ node record
Node ==
    [max_sol_conns |-> max_sol_conns, max_unsol_conns |-> max_unsol_conns,
     accept_unsol_conn |-> accept_unsol_conn, enable_relay |-> enable_relay,
     keys |-> keys,
     transports |-> transports,
     sol_conns |-> sol_conns, sol_standby_conns |-> sol_standby_conns,
     unsol_conns |-> unsol_conns, blacklist_addr |-> blacklist_addr,
     message_id_set |-> message_id_set, message_id_events |-> message_id_events,
     message_id_idx |-> message_id_idx,
     cut_through_map |-> cut_through_map, cut_through_length |-> cut_through_length,
     cut_through_header_recv |-> cut_through_header_recv,
     cut_through_used_ids |-> cut_through_used_ids,
     out |-> out, ret |-> ret]

Install(s) ==
    /\ max_sol_conns' = s.max_sol_conns
    /\ max_unsol_conns' = s.max_unsol_conns
    /\ accept_unsol_conn' = s.accept_unsol_conn
    /\ enable_relay' = s.enable_relay
    /\ keys' = s.keys
    /\ transports' = s.transports
    /\ sol_conns' = s.sol_conns
    /\ sol_standby_conns' = s.sol_standby_conns
    /\ unsol_conns' = s.unsol_conns
    /\ blacklist_addr' = s.blacklist_addr
    /\ message_id_set' = s.message_id_set
    /\ message_id_events' = s.message_id_events
    /\ message_id_idx' = s.message_id_idx
    /\ cut_through_map' = s.cut_through_map
    /\ cut_through_length' = s.cut_through_length
    /\ cut_through_header_recv' = s.cut_through_header_recv
    /\ cut_through_used_ids' = s.cut_through_used_ids
    /\ out' = s.out
    /\ ret' = s.ret

\* The node variables hold the record s (for initial states).
Holds(s) ==
    /\ max_sol_conns = s.max_sol_conns
    /\ max_unsol_conns = s.max_unsol_conns
    /\ accept_unsol_conn = s.accept_unsol_conn
    /\ enable_relay = s.enable_relay
    /\ keys = s.keys
    /\ transports = s.transports
    /\ sol_conns = s.sol_conns
    /\ sol_standby_conns = s.sol_standby_conns
    /\ unsol_conns = s.unsol_conns
    /\ blacklist_addr = s.blacklist_addr
    /\ message_id_set = s.message_id_set
    /\ message_id_events = s.message_id_events
    /\ message_id_idx = s.message_id_idx
    /\ cut_through_map = s.cut_through_map
    /\ cut_through_length = s.cut_through_length
    /\ cut_through_header_recv = s.cut_through_header_recv
    /\ cut_through_used_ids = s.cut_through_used_ids
    /\ out = s.out
    /\ ret = s.ret

\* std::unordered_map: a function whose domain is the set of keys present.
EmptyMap == [k \in {} |-> 0]
MapPut(m, k, v) == [x \in (DOMAIN m) \cup {k} |-> IF x = k THEN v ELSE m[x]]
MapErase(m, k) == [x \in (DOMAIN m) \ {k} |-> m[x]]
MapGet(m, k, default) == IF k \in DOMAIN m THEN m[k] ELSE default

\* message_id_events is a vector of RingSize vectors of ids.  It is held as the
\* map from the indices of its non-empty buckets to their contents; Bucket
\* reads bucket i, SetBucket writes it.
Bucket(events, i) == MapGet(events, i, <<>>)
SetBucket(events, i, q) == IF q = <<>> THEN MapErase(events, i) ELSE MapPut(events, i, q)

\* The node as the constructor leaves it.
PubSubNode(max_sol, max_unsol, accept, relay, k) ==
    [max_sol_conns |-> max_sol, max_unsol_conns |-> max_unsol,
     accept_unsol_conn |-> accept, enable_relay |-> relay,
     keys |-> k,
     transports |-> [t \in Transports |-> "none"],
     sol_conns |-> {}, sol_standby_conns |-> {}, unsol_conns |-> {},
     blacklist_addr |-> {},
     message_id_set |-> {},
     message_id_events |-> EmptyMap,
     message_id_idx |-> 0,
     cut_through_map |-> EmptyMap, cut_through_length |-> EmptyMap,
     cut_through_header_recv |-> EmptyMap,
     cut_through_used_ids |-> [t \in Transports |-> {}],
     out |-> <<>>, ret |-> 0]

Range(q) == {q[i] : i \in 1..Len(q)}

\* A handler starts with an empty trace and returns 0 unless it says otherwise.
Begin(s) == [s EXCEPT !.out = <<>>, !.ret = 0]

\* ------------------------------------------------------------ trace events
Ev(op, t) == [op |-> op, t |-> t, ch |-> 0, id |-> 0, w |-> <<>>, sid |-> 0]
EvCh(op, t, ch) == [op |-> op, t |-> t, ch |-> ch, id |-> 0, w |-> <<>>, sid |-> 0]
EvMsg(op, t, ch, id, w) == [op |-> op, t |-> t, ch |-> ch, id |-> id, w |-> w, sid |-> 0]
EvSid(op, t, sid) == [op |-> op, t |-> t, ch |-> 0, id |-> 0, w |-> <<>>, sid |-> sid]

Emit(s, e) == [s EXCEPT !.out = Append(@, e)]

Call(op, t) ==
    [op |-> op, t |-> t, ch |-> 0, id |-> 0, w |-> <<>>, ok |-> TRUE,
     size |-> 0, excluded |-> NoTransport, sid |-> 0]

\* Ascending order of a set of transports: the order the loops below visit a
\* TransportSet in (the container's order is unspecified; one order is fixed).
RECURSIVE SetToSeq(_)
SetToSeq(S) ==
    IF S = {} THEN <<>>
    ELSE LET m == CHOOSE x \in S : \A y \in S : x <= y
         IN <<m>> \o SetToSeq(S \ {m})

\* ------------------------------------------------- sending control messages
send_SUBSCRIBE(s, t, channel) == Emit(s, EvCh("SUBSCRIBE", t, channel))
send_UNSUBSCRIBE(s, t, channel) == Emit(s, EvCh("UNSUBSCRIBE", t, channel))
send_RESPONSE(s, t, msg_string) == Emit(s, Ev("RESPONSE_" \o msg_string, t))
send_HEARTBEAT(s, t) == Emit(s, Ev("HEARTBEAT", t))

\* std::for_each(delegate->channels ...) sending one control message per channel
RECURSIVE for_each_channel_SUBSCRIBE(_, _, _)
for_each_channel_SUBSCRIBE(s, t, ch) ==
    IF ch > NumChannels THEN s
    ELSE for_each_channel_SUBSCRIBE(send_SUBSCRIBE(s, t, ch), t, ch + 1)

RECURSIVE for_each_channel_UNSUBSCRIBE(_, _, _)
for_each_channel_UNSUBSCRIBE(s, t, ch) ==
    IF ch > NumChannels THEN s
    ELSE for_each_channel_UNSUBSCRIBE(send_UNSUBSCRIBE(s, t, ch), t, ch + 1)

\* ------------------------------------------------------------- slot sets
check_tranport_present(s, t) ==
    \/ t \in s.sol_conns
    \/ t \in s.sol_standby_conns
    \/ t \in s.unsol_conns

\* remove_conn that sends RESPONSE UNSUBSCRIBED whatever the set.
remove_conn_AlwaysResponds(s, f, t) ==
    IF t \in s[f]
    THEN send_RESPONSE([s EXCEPT ![f] = @ \ {t}], t, "UNSUBSCRIBED")
    ELSE s

\* remove_conn(t_set, transport): f names the set
remove_conn(s, f, t) ==
    IF t \in s[f]
    THEN LET s1 == [s EXCEPT ![f] = @ \ {t}]
         IN IF f = "sol_conns" THEN send_RESPONSE(s1, t, "UNSUBSCRIBED") ELSE s1
    ELSE s

add_sol_standby_conn(s, t) ==
    IF ~check_tranport_present(s, t)
    THEN [s EXCEPT !.sol_standby_conns = @ \cup {t}]
    ELSE s

\* add_sol_conn with the size check left out.
add_sol_conn_NoSizeCheck(s, t) ==
    LET s1 == remove_conn(s, "sol_standby_conns", t)
        s2 == remove_conn(s1, "unsol_conns", t)
    IN IF ~check_tranport_present(s2, t)
       THEN LET s3 == for_each_channel_SUBSCRIBE(s2, t, 1)
                s4 == [s3 EXCEPT !.sol_conns = @ \cup {t}]
            IN send_RESPONSE(s4, t, "SUBSCRIBED")
       ELSE s2

\* add_sol_conn with the check_tranport_present test left out.
add_sol_conn_NoPresenceCheck(s, t) ==
    IF Cardinality(s.sol_conns) >= s.max_sol_conns
    THEN add_sol_standby_conn(s, t)
    ELSE LET s1 == remove_conn(s, "sol_standby_conns", t)
             s2 == remove_conn(s1, "unsol_conns", t)
             s3 == for_each_channel_SUBSCRIBE(s2, t, 1)
             s4 == [s3 EXCEPT !.sol_conns = @ \cup {t}]
         IN send_RESPONSE(s4, t, "SUBSCRIBED")

add_sol_conn(s, t) ==
    IF Cardinality(s.sol_conns) >= s.max_sol_conns
    THEN add_sol_standby_conn(s, t)
    ELSE LET s1 == remove_conn(s, "sol_standby_conns", t)
             s2 == remove_conn(s1, "unsol_conns", t)
         IN IF ~check_tranport_present(s2, t)
            THEN LET s3 == for_each_channel_SUBSCRIBE(s2, t, 1)
                     s4 == [s3 EXCEPT !.sol_conns = @ \cup {t}]
                 IN send_RESPONSE(s4, t, "SUBSCRIBED")
            ELSE s2

\* add_unsol_conn with the check_tranport_present test left out.
add_unsol_conn_NoPresenceCheck(s, t) ==
    IF Cardinality(s.unsol_conns) >= s.max_unsol_conns
    THEN s
    ELSE send_RESPONSE([s EXCEPT !.unsol_conns = @ \cup {t}], t, "SUBSCRIBED")

\* add_unsol_conn without the test of the size of unsol_conns.
add_unsol_conn_NoSizeTest(s, t) ==
    IF ~check_tranport_present(s, t)
    THEN send_RESPONSE([s EXCEPT !.unsol_conns = @ \cup {t}], t, "SUBSCRIBED")
    ELSE s

add_unsol_conn(s, t) ==
    IF Cardinality(s.unsol_conns) >= s.max_unsol_conns
    THEN s
    ELSE IF ~check_tranport_present(s, t)
         THEN send_RESPONSE([s EXCEPT !.unsol_conns = @ \cup {t}], t, "SUBSCRIBED")
         ELSE s

\* The delegate's manage_subscriptions(max_sol_conns, sol_conns, sol_standby_conns).
\* The delegate is a template parameter; it changes the slot sets only through
\* remove_conn and add_sol_conn.  A plan [drop, promote] is what one call does:
\* it may remove one solicited peer and may then call add_sol_conn on one
\* standby peer (NoTransport: it does not).
Plans == [drop : Transports \cup {NoTransport}, promote : Transports \cup {NoTransport}]
\* The plans that differ in effect when t is being closed: a peer the plan names
\* that is not in the set the plan takes it from is the same as naming none.
PlansFor(s, t) ==
    [drop : (s.sol_conns \ {t}) \cup {NoTransport},
     promote : (s.sol_standby_conns \ {t}) \cup {NoTransport}]
NoPlan == [drop |-> NoTransport, promote |-> NoTransport]

manage_subscriptions(s, plan) ==
    LET s1 == IF plan.drop \in s.sol_conns
              THEN remove_conn(s, "sol_conns", plan.drop) ELSE s
    IN IF plan.promote \in s1.sol_standby_conns
       THEN add_sol_conn(s1, plan.promote) ELSE s1

\* ------------------------------------------------------------- did_close
\* for(auto& [subscriber, subscriber_id] : cut_through_map[(transport, id)])
\*     subscriber->cut_through_send_flush(subscriber_id);
RECURSIVE flush_subscribers(_, _)
flush_subscribers(s, subs) ==
    IF subs = <<>> THEN s
    ELSE flush_subscribers(
             Emit(s, EvSid("cut_through_send_flush", Head(subs)[1], Head(subs)[2])),
             Tail(subs))

\* for(auto id : transport.cut_through_used_ids) { flush; cut_through_map.erase }
RECURSIVE flush_used_ids(_, _, _)
\* The flush loop of did_close with the erase done before the flushes.
flush_used_ids_EraseFirst(s, t, ids) ==
    IF ids = <<>> THEN s
    ELSE LET key == <<t, Head(ids)>>
             s1 == [s EXCEPT !.cut_through_map = MapErase(@, key)]
             s2 == flush_subscribers(s1, MapGet(s1.cut_through_map, key, <<>>))
         IN flush_used_ids(s2, t, Tail(ids))

flush_used_ids(s, t, ids) ==
    IF ids = <<>> THEN s
    ELSE LET key == <<t, Head(ids)>>
             s1 == flush_subscribers(s, MapGet(s.cut_through_map, key, <<>>))
             s2 == [s1 EXCEPT !.cut_through_map = MapErase(@, key)]
         IN flush_used_ids(s2, t, Tail(ids))

\* The inner loop of "Remove subscriptions": erase the first entry of the list
\* whose transport is t, then break.
RECURSIVE erase_first_of_transport(_, _)
erase_first_of_transport(subs, t) ==
    IF subs = <<>> THEN <<>>
    ELSE IF Head(subs)[1] = t THEN Tail(subs)
    ELSE <<Head(subs)>> \o erase_first_of_transport(Tail(subs), t)

\* did_close that blacklists the address of every transport that closes.
did_close_AlwaysBlacklist(s, t, plan) ==
    LET inSol == t \in s.sol_conns
        s1 == remove_conn(s, "sol_conns", t)
        s2 == IF inSol THEN s1 ELSE remove_conn(s1, "sol_standby_conns", t)
        s3 == [s2 EXCEPT !.blacklist_addr = @ \cup {dst_addr(t)}]
        s4 == remove_conn(s3, "unsol_conns", t)
        s5 == flush_used_ids(s4, t, SetToSeq(s4.cut_through_used_ids[t]))
        s6 == [s5 EXCEPT !.cut_through_map =
                   [k \in DOMAIN @ |-> erase_first_of_transport(@[k], t)]]
    IN manage_subscriptions(s6, plan)

\* did_close that calls manage_subscriptions before it removes the transport.
did_close_ManageFirst(s, t, plan) ==
    LET s0 == manage_subscriptions(s, plan)
        inSol == t \in s0.sol_conns
        s1 == remove_conn(s0, "sol_conns", t)
        inStandby == ~inSol /\ t \in s1.sol_standby_conns
        s2 == IF inSol THEN s1 ELSE remove_conn(s1, "sol_standby_conns", t)
        s3 == IF inSol \/ inStandby
              THEN [s2 EXCEPT !.blacklist_addr = @ \cup {dst_addr(t)}]
              ELSE s2
        s4 == remove_conn(s3, "unsol_conns", t)
        s5 == flush_used_ids(s4, t, SetToSeq(s4.cut_through_used_ids[t]))
    IN [s5 EXCEPT !.cut_through_map =
            [k \in DOMAIN @ |-> erase_first_of_transport(@[k], t)]]

did_close(s, t, plan) ==
    LET inSol == t \in s.sol_conns
        s1 == remove_conn(s, "sol_conns", t)
        \* operator || : the standby set is tried only if sol_conns did not hold t
        inStandby == ~inSol /\ t \in s1.sol_standby_conns
        s2 == IF inSol THEN s1 ELSE remove_conn(s1, "sol_standby_conns", t)
        s3 == IF inSol \/ inStandby
              THEN [s2 EXCEPT !.blacklist_addr = @ \cup {dst_addr(t)}]
              ELSE s2
        s4 == remove_conn(s3, "unsol_conns", t)
        s5 == flush_used_ids(s4, t, SetToSeq(s4.cut_through_used_ids[t]))
        s6 == [s5 EXCEPT !.cut_through_map =
                   [k \in DOMAIN @ |-> erase_first_of_transport(@[k], t)]]
    IN manage_subscriptions(s6, plan)

\* transport.close(): the close callback runs before close() returns, then the
\* transport leaves the transport manager.
close(s, t, plan) ==
    LET s1 == did_close(Emit(s, Ev("close", t)), t, plan)
    IN [s1 EXCEPT !.transports[t] = "none", !.cut_through_used_ids[t] = {}]

\* ------------------------------------------------- subscription handlers
did_recv_SUBSCRIBE(s, t, plan) ==
    IF s.accept_unsol_conn
    THEN IF dst_addr(t) \in s.blacklist_addr
         THEN add_sol_conn([s EXCEPT !.blacklist_addr = @ \ {dst_addr(t)}], t)
         ELSE LET s1 == add_unsol_conn(s, t)
              IN IF ~check_tranport_present(s1, t)
                 THEN [close(s1, t, plan) EXCEPT !.ret = -1]
                 ELSE s1
    ELSE s

did_recv_UNSUBSCRIBE(s, t) == remove_conn(s, "unsol_conns", t)

did_dial(s, t) == add_sol_conn(s, t)

\* f.dial(addr, ...): a transport to addr now exists and is not yet active
dial(s, addr) == [Emit(s, Ev("dial", addr)) EXCEPT !.transports[addr] = "dialing"]

\* subscribe without the blacklist test.
subscribe_NoBlacklistCheck(s, addr) ==
    IF s.transports[addr] = "none" THEN dial(s, addr)
    ELSE IF s.transports[addr] # "active" THEN s
    ELSE add_sol_conn(s, addr)

subscribe(s, addr) ==
    IF addr \in s.blacklist_addr THEN s
    ELSE IF s.transports[addr] = "none" THEN dial(s, addr)
    ELSE IF s.transports[addr] # "active" THEN s
    ELSE add_sol_conn(s, addr)

\* unsubscribe that sends UNSUBSCRIBE on the first channel only.
unsubscribe_FirstChannelOnly(s, addr) ==
    IF s.transports[addr] = "none" THEN s
    ELSE send_UNSUBSCRIBE(s, addr, 1)

unsubscribe(s, addr) ==
    IF s.transports[addr] = "none" THEN s
    ELSE for_each_channel_UNSUBSCRIBE(s, addr, 1)

\* ---------------------------------------------------------------- timers
\* message_id_timer_cb that empties the bucket the index is leaving.
message_id_timer_cb_ClearOldBucket(s) ==
    LET old == s.message_id_idx
        idx == (s.message_id_idx + 1) % RingSize
    IN [s EXCEPT !.message_id_idx = idx,
                 !.message_id_set = @ \ Range(Bucket(s.message_id_events, old)),
                 !.message_id_events = SetBucket(@, old, <<>>)]

peer_selection_timer_cb(s, plan) == manage_subscriptions(s, plan)

blacklist_timer_cb(s) == [s EXCEPT !.blacklist_addr = {}]


RECURSIVE send_HEARTBEAT_each(_, _)
send_HEARTBEAT_each(s, ts) ==
    IF ts = <<>> THEN s
    ELSE send_HEARTBEAT_each(send_HEARTBEAT(s, Head(ts)), Tail(ts))

\* message_id_timer_cb that clears the bucket and leaves message_id_set alone.
message_id_timer_cb_KeepsSet(s) ==
    LET idx == (s.message_id_idx + 1) % RingSize
        s1 == [s EXCEPT !.message_id_idx = idx,
                        !.message_id_events = SetBucket(@, idx, <<>>)]
        s2 == send_HEARTBEAT_each(s1, SetToSeq(s1.sol_conns))
    IN send_HEARTBEAT_each(s2, SetToSeq(s2.sol_standby_conns))

message_id_timer_cb(s) ==
    LET idx == (s.message_id_idx + 1) % RingSize     \* uint8_t ++ wraps
        s1 == [s EXCEPT !.message_id_idx = idx,
                        !.message_id_set = @ \ Range(Bucket(s.message_id_events, idx)),
                        !.message_id_events = SetBucket(@, idx, <<>>)]
        s2 == send_HEARTBEAT_each(s1, SetToSeq(s1.sol_conns))
    IN send_HEARTBEAT_each(s2, SetToSeq(s2.sol_standby_conns))

\* ---------------------------------------------------------- MESSAGE path
\* What one send_message_on_channel call is given.  fail: the transports whose
\* cut_through_send returns a negative value.  ub: see send_loop.
SendArgs(ch, id, size, w, excluded, fail, ub, plan) ==
    [ch |-> ch, id |-> id, size |-> size, w |-> w, excluded |-> excluded,
     fail |-> fail, ub |-> ub, plan |-> plan]

\* witnesser.witness(prev_header, ...): the witness written into an outgoing
\* MESSAGE.  The witnesser is a template parameter; by its convention a node
\* appends its own public key to the witness of the header it inherited.
witness(prev_header, k) == Append(prev_header, k)

\* uint64_t buf_size = 11 + size; buf_size += attestation_size; buf_size +=
\* witness_size: the length of the frame create_MESSAGE builds, which the
\* transport declares to the receiver.
create_MESSAGE_size(size, attestation_size, witness_size) ==
    11 + size + attestation_size + witness_size

\* send_MESSAGE: create_MESSAGE(channel, message_id, data, size, prev_header),
\* then transport.send.  The event carries the witness of the frame sent.
send_MESSAGE(s, t, a) ==
    Emit(s, EvMsg("MESSAGE", t, a.ch, a.id, witness(a.w, s.keys)))

\* send_message_with_cut_through_check with >= in the size test.
send_message_with_cut_through_check_AtLeast(s, t, a) ==
    IF a.size >= CutThroughThreshold
    THEN LET s1 == Emit(s, EvMsg("cut_through_send", t, a.ch, a.id,
                                 witness(a.w, s.keys)))
         IN IF t \in a.fail THEN close(s1, t, a.plan) ELSE s1
    ELSE send_MESSAGE(s, t, a)

send_message_with_cut_through_check(s, t, a) ==
    IF a.size > CutThroughThreshold
    THEN LET s1 == Emit(s, EvMsg("cut_through_send", t, a.ch, a.id,
                                 witness(a.w, s.keys)))
         IN IF t \in a.fail THEN close(s1, t, a.plan) ELSE s1
    ELSE send_MESSAGE(s, t, a)

\* for (auto it = set.begin(); it != set.end(); it++) { ... } over the
\* transports `todo` of one TransportSet.  When a send closes *it, did_close
\* erases *it from the set that is being iterated: `it` is invalidated and
\* it++ is undefined.  From then on (inv) the loop visits whatever the build
\* makes of it: the transports in a.ub, a set chosen freely.
RECURSIVE send_loop(_, _, _, _)
send_loop(s, todo, a, inv) ==
    IF todo = <<>> THEN [s |-> s, inv |-> inv]
    ELSE LET t == Head(todo)
         IN IF inv /\ t \notin a.ub
            THEN send_loop(s, Tail(todo), a, inv)
            ELSE IF a.excluded # NoTransport /\ dst_addr(t) = a.excluded
            THEN send_loop(s, Tail(todo), a, inv)
            ELSE send_loop(send_message_with_cut_through_check(s, t, a), Tail(todo), a,
                           inv \/ (a.size > CutThroughThreshold /\ t \in a.fail))

\* send_message_on_channel(channel, message_id, data, size, excluded, prev_header)
send_message_on_channel(s, a) ==
    LET r1 == send_loop(s, SetToSeq(s.sol_conns), a, FALSE)
        r2 == send_loop(r1.s, SetToSeq(r1.s.unsol_conns), a, r1.inv)
    IN r2.s

\* send_message_on_channel(channel, data, size, excluded): the public publish.
\* message_id is the value drawn from message_id_dist; prev_header is empty.
publish(s, a) == [send_message_on_channel(s, a) EXCEPT !.ret = a.id]

\* did_recv_MESSAGE that records the id before attester.verify is consulted.
did_recv_MESSAGE_InsertFirst(s, t, m, fail, ub, plan) ==
    IF m.id \notin s.message_id_set
    THEN LET s1 == [s EXCEPT
                       !.message_id_set = @ \cup {m.id},
                       !.message_id_events =
                           SetBucket(@, s.message_id_idx,
                                     Append(Bucket(@, s.message_id_idx), m.id))]
         IN IF ~m.ok
            THEN [close(s1, t, plan) EXCEPT !.ret = -1]
            ELSE LET s2 == IF s1.enable_relay
                           THEN send_message_on_channel(
                                    s1, SendArgs(m.ch, m.id, m.size, m.w, dst_addr(t),
                                                 fail, ub, plan))
                           ELSE s1
                 IN Emit(s2, EvMsg("did_recv_message", NoTransport, m.ch, m.id, m.w))
    ELSE s

\* did_recv_MESSAGE without the message_id_set lookup.
did_recv_MESSAGE_NoDedup(s, t, m, fail, ub, plan) ==
    IF ~m.ok
    THEN [close(s, t, plan) EXCEPT !.ret = -1]
    ELSE LET s1 == [s EXCEPT
                       !.message_id_set = @ \cup {m.id},
                       !.message_id_events =
                           SetBucket(@, s.message_id_idx,
                                     Append(Bucket(@, s.message_id_idx), m.id))]
             s2 == IF s1.enable_relay
                   THEN send_message_on_channel(
                            s1, SendArgs(m.ch, m.id, m.size, m.w, dst_addr(t),
                                         fail, ub, plan))
                   ELSE s1
         IN Emit(s2, EvMsg("did_recv_message", NoTransport, m.ch, m.id, m.w))

\* An incoming MESSAGE m = [id, ch, w, ok, size]: message id, channel, the
\* witness header, what attester.verify returns for it, the payload size.
did_recv_MESSAGE(s, t, m, fail, ub, plan) ==
    IF m.id \notin s.message_id_set
    THEN IF ~m.ok
         THEN [close(s, t, plan) EXCEPT !.ret = -1]
         ELSE LET s1 == [s EXCEPT
                            !.message_id_set = @ \cup {m.id},
                            !.message_id_events =
                                SetBucket(@, s.message_id_idx,
                                          Append(Bucket(@, s.message_id_idx), m.id))]
                  s2 == IF s1.enable_relay
                        THEN send_message_on_channel(
                                 s1, SendArgs(m.ch, m.id, m.size, m.w, dst_addr(t),
                                              fail, ub, plan))
                        ELSE s1
              IN Emit(s2, EvMsg("did_recv_message", NoTransport, m.ch, m.id, m.w))
    ELSE s

\* ------------------------------------------------------ cut-through path
\* What the environment answers during one cut_through_recv_bytes call.
\* sub_ids[t]: what t's cut_through_send_start returns (0: it refuses).
\* fail: the subscribers whose cut_through_send_bytes returns a negative value.
\* ub: see cut_through_forward.
CutArgs(sub_ids, fail, ub, plan) ==
    [sub_ids |-> sub_ids, fail |-> fail, ub |-> ub, plan |-> plan]

\* The bytes handed to cut_through_recv_bytes.  When they are read as the head
\* of a MESSAGE frame: id and w are the message id and the witness keys in it,
\* short says that fewer than 13 + witness_length bytes are there.  kind tells
\* the buffers apart in the trace: "frame" (from the ingress transport),
\* "header" (the rebuilt header), "rest" (what follows the header in the
\* first buffer).
Bytes(kind, id, w, short) == [kind |-> kind, id |-> id, w |-> w, short |-> short]

EvBytes(t, sid, b) ==
    [op |-> "cut_through_send_bytes_" \o b.kind, t |-> t, ch |-> 0, id |-> b.id,
     w |-> b.w, sid |-> sid]

cut_through_recv_start(s, t, id, length) ==
    LET key == <<t, id>>
    IN [s EXCEPT !.cut_through_map = MapPut(@, key, <<>>),
                 !.cut_through_header_recv = MapPut(@, key, FALSE),
                 !.cut_through_length = MapPut(@, key, length)]

\* One of the two loops over sol_conns / unsol_conns that build the
\* subscriber list of the session `key`.
RECURSIVE cut_through_subscribe(_, _, _, _, _, _)
\* The subscriber loop without the comparison with the witness.
cut_through_subscribe_IgnoresWitness(s, todo, t, key, b, a) ==
    IF todo = <<>> THEN s
    ELSE LET subscriber == Head(todo)
             sub_id == a.sub_ids[subscriber]
         IN IF t = subscriber
            THEN cut_through_subscribe(s, Tail(todo), t, key, b, a)
            ELSE LET s1 == Emit(s, EvSid("cut_through_send_start", subscriber, sub_id))
                     s2 == IF sub_id = 0 THEN s1
                           ELSE [s1 EXCEPT !.cut_through_map =
                                    MapPut(@, key, Append(MapGet(@, key, <<>>),
                                                          <<subscriber, sub_id>>))]
                 IN cut_through_subscribe(s2, Tail(todo), t, key, b, a)

cut_through_subscribe(s, todo, t, key, b, a) ==
    IF todo = <<>> THEN s
    ELSE LET subscriber == Head(todo)
             found == get_remote_static_pk(subscriber) \in Range(b.w)
             sub_id == a.sub_ids[subscriber]
         IN IF t = subscriber \/ found
            THEN cut_through_subscribe(s, Tail(todo), t, key, b, a)
            ELSE LET s1 == Emit(s, EvSid("cut_through_send_start", subscriber, sub_id))
                     s2 == IF sub_id = 0 THEN s1
                           ELSE [s1 EXCEPT !.cut_through_map =
                                    MapPut(@, key, Append(MapGet(@, key, <<>>),
                                                          <<subscriber, sub_id>>))]
                 IN cut_through_subscribe(s2, Tail(todo), t, key, b, a)

\* for(auto [subscriber, sub_id] : cut_through_map[(transport, id)]) over the
\* entries `todo` of the list.  subscriber->close() runs did_close, which
\* erases the subscriber's entry, the one the loop's iterator points at, from
\* the list: the iterator is invalidated and ++ is undefined.  From then on
\* (inv) the loop visits the entries of the transports in a.ub, a set chosen
\* freely.
RECURSIVE cut_through_forward(_, _, _, _, _)
cut_through_forward(s, todo, b, a, inv) ==
    IF todo = <<>> THEN s
    ELSE LET subscriber == Head(todo)[1]
             sub_id == Head(todo)[2]
         IN IF inv /\ subscriber \notin a.ub
            THEN cut_through_forward(s, Tail(todo), b, a, inv)
            ELSE LET s1 == Emit(s, EvBytes(subscriber, sub_id, b))
                 IN IF subscriber \in a.fail
                    THEN cut_through_forward(close(s1, subscriber, a.plan),
                                             Tail(todo), b, a, TRUE)
                    ELSE cut_through_forward(s1, Tail(todo), b, a, inv)

RECURSIVE cut_through_recv_bytes(_, _, _, _, _)
\* cut_through_recv_bytes that sends the skip for a duplicate id and goes on
\* as for a fresh one.
cut_through_recv_bytes_SkipAndForward(s, t, id, b, a) ==
    LET key == <<t, id>>
    IN IF ~MapGet(s.cut_through_header_recv, key, FALSE)
       THEN IF b.short
            THEN [close([s EXCEPT !.cut_through_header_recv = MapPut(@, key, FALSE)],
                        t, a.plan) EXCEPT !.ret = -1]
            ELSE LET s1 == [s EXCEPT !.cut_through_header_recv = MapPut(@, key, TRUE)]
                     s2 == IF b.id \in s1.message_id_set
                           THEN Emit(s1, EvSid("cut_through_send_skip", t, id))
                           ELSE [s1 EXCEPT
                                    !.message_id_set = @ \cup {b.id},
                                    !.message_id_events =
                                        SetBucket(@, s1.message_id_idx,
                                            Append(Bucket(@, s1.message_id_idx), b.id))]
                     s3 == cut_through_subscribe(s2, SetToSeq(s2.sol_conns),
                                                 t, key, b, a)
                     s4 == cut_through_subscribe(s3, SetToSeq(s3.unsol_conns),
                                                 t, key, b, a)
                     buf == Bytes("header", b.id, Append(b.w, s.keys), FALSE)
                     s5 == cut_through_recv_bytes(s4, t, id, buf, a)
                 IN IF s5.ret < 0 THEN [s5 EXCEPT !.ret = -1]
                    ELSE cut_through_recv_bytes(s5, t, id,
                             Bytes("rest", 0, <<>>, FALSE), a)
       ELSE LET s1 == [s EXCEPT !.cut_through_map = MapPut(@, key, MapGet(@, key, <<>>))]
            IN [cut_through_forward(s1, s1.cut_through_map[key], b, a, FALSE)
                   EXCEPT !.ret = 0]

cut_through_recv_bytes(s, t, id, b, a) ==
    LET key == <<t, id>>
    IN IF ~MapGet(s.cut_through_header_recv, key, FALSE)
       THEN IF b.short
            THEN [close([s EXCEPT !.cut_through_header_recv = MapPut(@, key, FALSE)],
                        t, a.plan) EXCEPT !.ret = -1]
            ELSE LET s1 == [s EXCEPT !.cut_through_header_recv = MapPut(@, key, TRUE)]
                 IN IF b.id \in s1.message_id_set
                    THEN [Emit(s1, EvSid("cut_through_send_skip", t, id)) EXCEPT !.ret = -1]
                    ELSE LET s2 == [s1 EXCEPT
                                       !.message_id_set = @ \cup {b.id},
                                       !.message_id_events =
                                           SetBucket(@, s1.message_id_idx,
                                               Append(Bucket(@, s1.message_id_idx), b.id))]
                             s3 == cut_through_subscribe(s2, SetToSeq(s2.sol_conns),
                                                         t, key, b, a)
                             s4 == cut_through_subscribe(s3, SetToSeq(s3.unsol_conns),
                                                         t, key, b, a)
                             \* the header with this node's public key appended
                             buf == Bytes("header", b.id, Append(b.w, s.keys), FALSE)
                             s5 == cut_through_recv_bytes(s4, t, id, buf, a)
                         IN IF s5.ret < 0 THEN [s5 EXCEPT !.ret = -1]
                            ELSE cut_through_recv_bytes(s5, t, id,
                                     Bytes("rest", 0, <<>>, FALSE), a)
       ELSE LET s1 == [s EXCEPT !.cut_through_map = MapPut(@, key, MapGet(@, key, <<>>))]
            IN [cut_through_forward(s1, s1.cut_through_map[key], b, a, FALSE)
                   EXCEPT !.ret = 0]

RECURSIVE cut_through_send_end_each(_, _)
cut_through_send_end_each(s, subs) ==
    IF subs = <<>> THEN s
    ELSE cut_through_send_end_each(
             Emit(s, EvSid("cut_through_send_end", Head(subs)[1], Head(subs)[2])),
             Tail(subs))

\* cut_through_recv_end that sends the end twice to every subscriber.
cut_through_recv_end_Twice(s, t, id) ==
    LET key == <<t, id>>
        s1 == [s EXCEPT !.cut_through_map = MapPut(@, key, MapGet(@, key, <<>>))]
    IN cut_through_send_end_each(s1, s1.cut_through_map[key] \o s1.cut_through_map[key])

cut_through_recv_end(s, t, id) ==
    LET key == <<t, id>>
        s1 == [s EXCEPT !.cut_through_map = MapPut(@, key, MapGet(@, key, <<>>))]
    IN cut_through_send_end_each(s1, s1.cut_through_map[key])

\* for(auto [subscriber, sub_id] : cut_through_map[(transport, id)])
\*     subscriber->cut_through_send_flush(sub_id);
cut_through_recv_flush(s, t, id) ==
    LET key == <<t, id>>
        s1 == [s EXCEPT !.cut_through_map = MapPut(@, key, MapGet(@, key, <<>>))]
    IN flush_subscribers(s1, s1.cut_through_map[key])

\* The inner loop of cut_through_recv_skip: erase the first entry of the list
\* that is (t, id), then break.
RECURSIVE erase_first_entry(_, _)
erase_first_entry(subs, e) ==
    IF subs = <<>> THEN <<>>
    ELSE IF Head(subs) = e THEN Tail(subs)
    ELSE <<Head(subs)>> \o erase_first_entry(Tail(subs), e)

\* cut_through_recv_skip that drops the whole list of a session that holds
\* the entry.
cut_through_recv_skip_ErasesList(s, t, id) ==
    [s EXCEPT !.cut_through_map =
        [k \in DOMAIN @ |-> IF <<t, id>> \in Range(@[k]) THEN <<>> ELSE @[k]]]

\* The peer of egress transport t asks to stop stream id.
cut_through_recv_skip(s, t, id) ==
    [s EXCEPT !.cut_through_map =
        [k \in DOMAIN @ |-> erase_first_entry(@[k], <<t, id>>)]]

\* ------------------------------------------------- reading a handler's trace
\* A transmission of a MESSAGE frame to a peer, on either send path.
IsSend(e) == e.op \in {"MESSAGE", "cut_through_send"}
SendsTo(o, t) == Cardinality({i \in 1..Len(o) : IsSend(o[i]) /\ o[i].t = t})
Deliveries(o, id) ==
    Cardinality({i \in 1..Len(o) : o[i].op = "did_recv_message" /\ o[i].id = id})
Closed(o, t) == \E i \in 1..Len(o) : o[i].op = "close" /\ o[i].t = t
Peers == sol_conns \cup unsol_conns
Count(o, op, t) == Cardinality({i \in 1..Len(o) : o[i].op = op /\ o[i].t = t})
\* The slot sets, the blacklist and the transport manager of a node record.
Slots(s) == <<s.sol_conns, s.sol_standby_conns, s.unsol_conns, s.blacklist_addr,
             s.transports>>

\* ================================================================ actions
\* An action applies one handler to the node.  With tr the handler's trace
\* (out, ret) and the call (last) are kept in the state; without it they are
\* dropped, for the specifications that only set a node up.
Quiet == [op |-> "quiet", t |-> NoTransport, ch |-> 0, id |-> 0, w |-> <<>>, ok |-> TRUE,
          size |-> 0, excluded |-> NoTransport, sid |-> 0]

\* The event loop is single-threaded: a handler starts only when the previous
\* one has returned.  A traced handler leaves its trace in the state until
\* ReturnToLoop.
Idle == last = Quiet

Step(tr, call, s) ==
    /\ Idle
    /\ last' = IF tr THEN call ELSE Quiet
    /\ Install(IF tr THEN s ELSE Begin(s))

Handle(tr, call, s) ==
    /\ Step(tr, call, s)
    /\ UNCHANGED <<mesh, inflight, age, framer, abci>>

\* One node stands alone, and no id has been inserted yet.
NoMesh == /\ mesh = <<>>
          /\ inflight = EmptyMap
          /\ age = EmptyMap
          /\ framer = <<>>
          /\ abci = <<>>

ReturnToLoop ==
    /\ ~Idle
    /\ last' = Quiet
    /\ Install(Begin(Node))
    /\ UNCHANGED <<mesh, inflight, age, framer, abci>>

Subscribe(tr) ==
    \E t \in Transports :
        Handle(tr, Call("subscribe", t), subscribe(Begin(Node), t))

Unsubscribe(tr) ==
    \E t \in Transports :
        Handle(tr, Call("unsubscribe", t), unsubscribe(Begin(Node), t))

\* The handshake of a dialled transport completes.
DidDial(tr) ==
    \E t \in Transports :
        /\ transports[t] = "dialing"
        /\ Handle(tr, Call("did_dial", t),
                  did_dial([Begin(Node) EXCEPT !.transports[t] = "active"], t))

\* A remote peer dials this node: should_accept() returns accept_unsol_conn,
\* did_create_transport sets the transport up, the handshake completes.
DidCreateTransportOf(tr, t) ==
    /\ transports[t] = "none"
    /\ accept_unsol_conn
    /\ Handle(tr, Call("did_create_transport", t),
              [Begin(Node) EXCEPT !.transports[t] = "active"])

DidCreateTransport(tr) == \E t \in Transports : DidCreateTransportOf(tr, t)

DidRecvSUBSCRIBE(tr) ==
    \E t \in Transports : \E plan \in PlansFor(Node, t) :
        /\ transports[t] = "active"
        /\ Handle(tr, Call("did_recv_SUBSCRIBE", t),
                  did_recv_SUBSCRIBE(Begin(Node), t, plan))

DidRecvUNSUBSCRIBE(tr) ==
    \E t \in Transports :
        /\ transports[t] = "active"
        /\ Handle(tr, Call("did_recv_UNSUBSCRIBE", t),
                  did_recv_UNSUBSCRIBE(Begin(Node), t))

\* The transport goes away (remote close, reset, timeout).
DidClose(tr) ==
    \E t \in Transports : \E plan \in PlansFor(Node, t) :
        /\ transports[t] # "none"
        /\ Handle(tr, Call("did_close", t), close(Begin(Node), t, plan))

PeerSelectionTimer(tr) ==
    \E plan \in PlansFor(Node, NoTransport) :
        Handle(tr, Call("peer_selection_timer_cb", NoTransport),
               peer_selection_timer_cb(Begin(Node), plan))

BlacklistTimer(tr) ==
    Handle(tr, Call("blacklist_timer_cb", NoTransport), blacklist_timer_cb(Begin(Node)))

MessageIdTimer(tr) ==
    Handle(tr, Call("message_id_timer_cb", NoTransport), message_id_timer_cb(Begin(Node)))

BoundedMessageIdTimer(tr) ==
    /\ message_id_idx < MaxTicks
    /\ MessageIdTimer(tr)

\* ------------------------------------------------------------------ Spec
\* Slot management of one node, every handler traced.
Init ==
    /\ \E ms \in Caps, mu \in Caps, acc \in BOOLEAN :
           Holds(PubSubNode(ms, mu, acc, FALSE, SelfKey))
    /\ last = Quiet
    /\ NoMesh

Next ==
    \/ Subscribe(TRUE)
    \/ Unsubscribe(TRUE)
    \/ DidDial(TRUE)
    \/ DidCreateTransport(TRUE)
    \/ DidRecvSUBSCRIBE(TRUE)
    \/ DidRecvUNSUBSCRIBE(TRUE)
    \/ DidClose(TRUE)
    \/ PeerSelectionTimer(TRUE)
    \/ BlacklistTimer(TRUE)
    \/ BoundedMessageIdTimer(TRUE)
    \/ ReturnToLoop

Spec == Init /\ [][Next]_vars

\* ------------------------------------------------------------- SpecSlots
\* The same handlers, untraced: the reachable slot sets, blacklists and
\* transport states of a node.
NextSlots ==
    \/ Subscribe(FALSE)
    \/ Unsubscribe(FALSE)
    \/ DidDial(FALSE)
    \/ DidCreateTransport(FALSE)
    \/ DidRecvSUBSCRIBE(FALSE)
    \/ DidRecvUNSUBSCRIBE(FALSE)
    \/ DidClose(FALSE)
    \/ PeerSelectionTimer(FALSE)
    \/ BlacklistTimer(FALSE)
    \/ BoundedMessageIdTimer(FALSE)

SpecSlots == Init /\ [][NextSlots]_vars

\* ----------------------------------------------------------- SpecPromote
\* Spec with a delegate that promotes.  The peer selection timer is periodic
\* (the constructor starts it with a period of 60 s) and the event loop runs
\* one handler at a time to completion, so the timer gets its turn whenever the
\* loop is idle again and again; PromoteTick is a tick at which the delegate
\* calls add_sol_conn on a standby peer.
PromoteTick ==
    \E p \in sol_standby_conns :
        Handle(TRUE, Call("peer_selection_timer_cb", NoTransport),
               peer_selection_timer_cb(Begin(Node),
                                       [drop |-> NoTransport, promote |-> p]))

SpecPromote ==
    /\ Init
    /\ [][Next]_vars
    /\ WF_vars(ReturnToLoop)
    /\ SF_vars(PromoteTick)

\* --------------------------------------------------------- SpecBlacklist
\* The actions of Spec with the history of the blacklist: age[a] is kept for
\* every address a that entered blacklist_addr since the last blacklist tick.
\* ticks counts the dedup ticks since it (last) entered.
BlacklistAge(call, s) ==
    IF call.op = "blacklist_timer_cb" THEN EmptyMap
    ELSE LET entered == s.blacklist_addr \ blacklist_addr
         IN [a \in DOMAIN age \cup entered |->
                IF a \in entered
                THEN [ticks |-> 0]
                ELSE IF call.op = "message_id_timer_cb"
                     THEN [age[a] EXCEPT !.ticks = @ + 1]
                     ELSE age[a]]

Aged(call, s) ==
    /\ Step(TRUE, call, s)
    /\ age' = BlacklistAge(call, s)
    /\ UNCHANGED <<mesh, inflight, framer, abci>>

NextBlacklist ==
    \/ \E t \in Transports :
           Aged(Call("subscribe", t), subscribe(Begin(Node), t))
    \/ \E t \in Transports :
           Aged(Call("unsubscribe", t), unsubscribe(Begin(Node), t))
    \/ \E t \in Transports :
           /\ transports[t] = "dialing"
           /\ Aged(Call("did_dial", t),
                   did_dial([Begin(Node) EXCEPT !.transports[t] = "active"], t))
    \/ \E t \in Transports :
           /\ transports[t] = "none"
           /\ accept_unsol_conn
           /\ Aged(Call("did_create_transport", t),
                   [Begin(Node) EXCEPT !.transports[t] = "active"])
    \/ \E t \in Transports : \E plan \in PlansFor(Node, t) :
           /\ transports[t] = "active"
           /\ Aged(Call("did_recv_SUBSCRIBE", t),
                   did_recv_SUBSCRIBE(Begin(Node), t, plan))
    \/ \E t \in Transports :
           /\ transports[t] = "active"
           /\ Aged(Call("did_recv_UNSUBSCRIBE", t),
                   did_recv_UNSUBSCRIBE(Begin(Node), t))
    \/ \E t \in Transports : \E plan \in PlansFor(Node, t) :
           /\ transports[t] # "none"
           /\ Aged(Call("did_close", t), close(Begin(Node), t, plan))
    \/ \E plan \in PlansFor(Node, NoTransport) :
           Aged(Call("peer_selection_timer_cb", NoTransport),
                peer_selection_timer_cb(Begin(Node), plan))
    \/ Aged(Call("blacklist_timer_cb", NoTransport), blacklist_timer_cb(Begin(Node)))
    \/ /\ message_id_idx < MaxTicks
       /\ Aged(Call("message_id_timer_cb", NoTransport),
               message_id_timer_cb(Begin(Node)))
    \/ ReturnToLoop

SpecBlacklist == Init /\ [][NextBlacklist]_vars

\* --------------------------------------------------------------- SpecMsg
\* The inputs of one fan-out: which cut_through_send calls fail (at most one
\* here), and what the loop does after an invalidated iterator.
FailSets(s, size, excluded) ==
    IF size > CutThroughThreshold
    THEN {{}} \cup {{t} : t \in (s.sol_conns \cup s.unsol_conns) \ {excluded}}
    ELSE {{}}
UbSets(s, fail) ==
    IF fail = {} THEN {{}} ELSE SUBSET ((s.sol_conns \cup s.unsol_conns) \ fail)
\* The delegate's plan is read only by a handler that closes a transport.
PlansIf(closes, s, t) == IF closes THEN PlansFor(s, t) ELSE {NoPlan}

MsgCall(op, t, ch, id, w, ok, size, excluded) ==
    [op |-> op, t |-> t, ch |-> ch, id |-> id, w |-> w, ok |-> ok,
     size |-> size, excluded |-> excluded, sid |-> 0]

\* A MESSAGE arrives on an active transport.  The handler reads the message
\* id first; attester.verify (result ok) is called only for an id that is not
\* in message_id_set; the witness is read only when the message is accepted;
\* the payload size and the fan-out inputs only when it is relayed.  Inputs the
\* handler does not read are not varied.
Fresh(id) == id \notin message_id_set

DidRecvMESSAGE ==
    \E t \in Transports, id \in MessageIds, ch \in Channels :
      \E ok \in (IF Fresh(id) THEN BOOLEAN ELSE {TRUE}) :
        \E w \in (IF Fresh(id) /\ ok THEN Witnesses ELSE {<<>>}) :
          \E size \in (IF Fresh(id) /\ ok /\ enable_relay
                       THEN Sizes ELSE {CutThroughThreshold}) :
            \E fail \in (IF Fresh(id) /\ ok /\ enable_relay
                         THEN FailSets(Node, size, dst_addr(t)) ELSE {{}}) :
              \E ub \in UbSets(Node, fail) :
                \E plan \in PlansIf(fail # {} \/ ~ok, Node, t) :
                  /\ transports[t] = "active"
                  /\ Handle(TRUE,
                        MsgCall("did_recv_MESSAGE", t, ch, id, w, ok, size, NoTransport),
                        did_recv_MESSAGE(Begin(Node), t,
                            [id |-> id, ch |-> ch, w |-> w, ok |-> ok, size |-> size],
                            fail, ub, plan))

Publish ==
    \E id \in MessageIds, ch \in Channels, size \in Sizes,
       excluded \in Transports \cup {NoTransport} :
      \E fail \in FailSets(Node, size, excluded) :
        \E ub \in UbSets(Node, fail) :
          \E plan \in PlansIf(fail # {}, Node, NoTransport) :
            Handle(TRUE, MsgCall("publish", NoTransport, ch, id, <<>>, TRUE, size, excluded),
                   publish(Begin(Node),
                           SendArgs(ch, id, size, <<>>, excluded, fail, ub, plan)))

InitMsg ==
    /\ \E relay \in BOOLEAN : Holds(PubSubNode(MaxCap, MaxCap, TRUE, relay, SelfKey))
    /\ last = Quiet
    /\ NoMesh

NextMsg ==
    \/ Subscribe(FALSE)
    \/ DidDial(FALSE)
    \/ DidCreateTransport(FALSE)
    \/ DidRecvSUBSCRIBE(FALSE)
    \/ DidClose(FALSE)
    \/ DidRecvMESSAGE
    \/ Publish
    \/ ReturnToLoop

SpecMsg == InitMsg /\ [][NextMsg]_vars

\* --------------------------------------------------------------- SpecCut
\* The cut-through path of one node.  A frame longer than CutThroughThreshold
\* arrives on stream id of an active transport: the transport puts the stream
\* in cut-through mode (cut_through_used_ids) and calls cut_through_recv_start,
\* then cut_through_recv_bytes per buffer, then cut_through_recv_end.
CutLengths == {CutThroughThreshold + 1}

CutThroughRecvStart ==
    \E t \in Transports, id \in StreamIds, length \in CutLengths :
        /\ transports[t] = "active"
        /\ id \notin cut_through_used_ids[t]
        /\ Cardinality(DOMAIN cut_through_length \cup {<<t, id>>}) <= MaxSessions
        /\ Handle(FALSE, Call("cut_through_recv_start", t),
                  cut_through_recv_start(
                      [Begin(Node) EXCEPT !.cut_through_used_ids[t] = @ \cup {id}],
                      t, id, length))

HeaderPending(t, id) == ~MapGet(cut_through_header_recv, <<t, id>>, FALSE)

\* The peers cut_through_recv_bytes calls cut_through_send_start on.
Candidates(t, w) ==
    {p \in sol_conns \cup unsol_conns : p # t /\ get_remote_static_pk(p) \notin Range(w)}

\* The answers of cut_through_send_start: read only for the candidates.
SubIds(cands) ==
    {f \in [Transports -> 0..NumStreams] : \A p \in Transports \ cands : f[p] = 0}

CutCall(t, sid, b) ==
    [op |-> "cut_through_recv_bytes", t |-> t, ch |-> 0, id |-> b.id, w |-> b.w,
     ok |-> ~b.short, size |-> 0, excluded |-> NoTransport, sid |-> sid]

OneOrNone(S) == {{}} \cup {{x} : x \in S}

\* The first buffer of a frame: the handler reads the header in it.
CutThroughRecvHeader ==
    \E t \in Transports : \E id \in cut_through_used_ids[t] :
      \E short \in BOOLEAN :
        \E mid \in (IF short THEN {0} ELSE MessageIds) :
          \E w \in (IF ~short /\ Fresh(mid) THEN Witnesses ELSE {<<>>}) :
            \E sub_ids \in SubIds(IF ~short /\ Fresh(mid)
                                  THEN Candidates(t, w) ELSE {}) :
              \E fail \in OneOrNone({p \in Transports : sub_ids[p] # 0}) :
                \E ub \in (IF fail = {} THEN {{}}
                           ELSE SUBSET ({p \in Transports : sub_ids[p] # 0} \ fail)) :
                  \E plan \in PlansIf(short \/ fail # {}, Node, t) :
                    /\ HeaderPending(t, id)
                    /\ Handle(TRUE, CutCall(t, id, Bytes("frame", mid, w, short)),
                              cut_through_recv_bytes(Begin(Node), t, id,
                                  Bytes("frame", mid, w, short),
                                  CutArgs(sub_ids, fail, ub, plan)))

Subscribers(t, id) ==
    {e[1] : e \in Range(MapGet(cut_through_map, <<t, id>>, <<>>))}

\* A later buffer of the frame.
CutThroughRecvBytes ==
    \E t \in Transports : \E id \in cut_through_used_ids[t] :
      \E fail \in OneOrNone(Subscribers(t, id)) :
        \E ub \in (IF fail = {} THEN {{}} ELSE SUBSET (Subscribers(t, id) \ fail)) :
          \E plan \in PlansIf(fail # {}, Node, t) :
            /\ ~HeaderPending(t, id)
            /\ Handle(TRUE, CutCall(t, id, Bytes("frame", 0, <<>>, FALSE)),
                      cut_through_recv_bytes(Begin(Node), t, id,
                          Bytes("frame", 0, <<>>, FALSE),
                          CutArgs([p \in Transports |-> 0], fail, ub, plan)))

\* The frame is complete: the stream leaves cut-through mode.
CutThroughRecvEnd ==
    \E t \in Transports : \E id \in cut_through_used_ids[t] :
        Handle(TRUE, [Call("cut_through_recv_end", t) EXCEPT !.sid = id],
               [cut_through_recv_end(Begin(Node), t, id)
                    EXCEPT !.cut_through_used_ids[t] = @ \ {id}])

InitCut ==
    /\ Holds(PubSubNode(MaxCap, MaxCap, TRUE, TRUE, SelfKey))
    /\ last = Quiet
    /\ NoMesh

NextCut ==
    \/ Subscribe(FALSE)
    \/ DidDial(FALSE)
    \/ DidCreateTransport(FALSE)
    \/ DidRecvSUBSCRIBE(FALSE)
    \/ DidClose(TRUE)
    \/ CutThroughRecvStart
    \/ CutThroughRecvHeader
    \/ CutThroughRecvBytes
    \/ CutThroughRecvEnd
    \* the ingress stream is reset by its peer: the stream leaves cut-through mode
    \/ \E t \in Transports : \E id \in cut_through_used_ids[t] :
           Handle(TRUE, [Call("cut_through_recv_flush", t) EXCEPT !.sid = id],
                  [cut_through_recv_flush(Begin(Node), t, id)
                       EXCEPT !.cut_through_used_ids[t] = @ \ {id}])
    \* the peer of an egress stream asks this node to stop sending on it
    \* (ok: the stream is in a subscriber list when the skip arrives)
    \/ \E t \in Transports, id \in StreamIds :
           /\ transports[t] = "active"
           /\ Handle(TRUE, [Call("cut_through_recv_skip", t)
                               EXCEPT !.sid = id,
                                      !.ok = \E k \in DOMAIN cut_through_map :
                                                 <<t, id>> \in Range(cut_through_map[k])],
                     cut_through_recv_skip(Begin(Node), t, id))
    \/ ReturnToLoop

SpecCut == InitCut /\ [][NextCut]_vars

\* ------------------------------------------------------------- SpecBytes
\* The cut-through path with the bytes of the frame.  A net::Buffer is held
\* as its runs of equal bytes, <<[b |-> byte, n |-> count], ...>>, no run
\* empty and no two neighbours of the same byte: equal byte strings are
\* equal values, and a buffer of 65 536 bytes is as small as one of 13.
Cat(x, y) ==
    IF x = <<>> THEN y
    ELSE IF y = <<>> THEN x
    ELSE IF x[Len(x)].b = y[1].b
         THEN SubSeq(x, 1, Len(x) - 1)
                  \o <<[b |-> y[1].b, n |-> x[Len(x)].n + y[1].n]>> \o Tail(y)
         ELSE x \o y

\* bytes.size()
size(x) ==
    LET upto[i \in 0..Len(x)] == IF i = 0 THEN 0 ELSE upto[i - 1] + x[i].n
    IN upto[Len(x)]

\* The len bytes of x from offset `from` on (bytes.data() + from).
Slice(x, from, len) ==
    LET upto[i \in 0..Len(x)] == IF i = 0 THEN 0 ELSE upto[i - 1] + x[i].n
        lo(i) == IF upto[i - 1] > from THEN upto[i - 1] ELSE from
        hi(i) == IF upto[i] < from + len THEN upto[i] ELSE from + len
        cut == [i \in 1..Len(x) |->
                   [b |-> x[i].b, n |-> IF hi(i) > lo(i) THEN hi(i) - lo(i) ELSE 0]]
    IN SelectSeq(cut, LAMBDA r : r.n > 0)

\* bytes.cover(k): the buffer without its first k bytes.
cover(x, k) == Slice(x, k, size(x) - k)

read_uint16_be(x, pos) == Slice(x, pos, 1)[1].b * 256 + Slice(x, pos + 1, 1)[1].b

read_uint64_be(x, pos) ==
    LET v[i \in 0..8] == IF i = 0 THEN 0
                         ELSE v[i - 1] * 256 + Slice(x, pos + i - 1, 1)[1].b
    IN v[8]

\* buf.write_uint16_be(pos, v): v is a uint16_t parameter.
write_uint16_be(x, pos, v) ==
    LET u == v % 65536
        be == Cat(<<[b |-> u \div 256, n |-> 1]>>, <<[b |-> u % 256, n |-> 1]>>)
    IN Cat(Cat(Slice(x, 0, pos), be), cover(x, pos + 2))

\* if((uint16_t)bytes.size() < 13 + witness_length): the size is cut to 16
\* bits, the sum is an int.
not_enough_header(bytes_size, witness_length) ==
    (bytes_size % 65536) < 13 + witness_length

\* The 32 bytes of public key k (crypto_scalarmult_base of a node's keys,
\* get_remote_static_pk of a peer): one byte value per key.
PkBytes(k) == <<[b |-> 100 + k, n |-> 32]>>

\* new_header: the first 13 + witness_length bytes, this node's public key
\* after them, and witness_length + 32 written at offset 11.
new_header(bytes, witness_length, pk) ==
    write_uint16_be(Cat(Slice(bytes, 0, 13 + witness_length), pk),
                    11, witness_length + 32)

\* A MESSAGE frame as create_MESSAGE lays it out with an empty attestation:
\* type 3, message id, channel, witness length, witness, payload.  The
\* witness is witness_length bytes of key k's byte, the payload n bytes 255.
MessageFrame(id, channel, witness_length, k, n) ==
    LET u16(v) == Cat(<<[b |-> v \div 256, n |-> 1]>>, <<[b |-> v % 256, n |-> 1]>>)
        run(b, c) == IF c = 0 THEN <<>> ELSE <<[b |-> b, n |-> c]>>
        head == Cat(Cat(<<[b |-> 3, n |-> 1]>>,
                        Cat(<<[b |-> 0, n |-> 7]>>, <<[b |-> id, n |-> 1]>>)),
                    Cat(u16(channel), u16(witness_length)))
    IN Cat(Cat(head, run(100 + k, witness_length)), run(255, n))

\* What cut_through_recv_bytes reads in the first buffer: the message id at
\* offset 1 and the witness_length / 32 chunks of 32 bytes from offset 13 on,
\* which memcmp compares with a peer's key.  A chunk equals a key only when
\* it lies within one run of the key's byte; w lists the keys of the runs
\* that hold such a chunk, in order (equal neighbouring chunks once).
HeaderOf(bytes, witness_length) ==
    LET wit == Slice(bytes, 13, 32 * (witness_length \div 32))
        upto[i \in 0..Len(wit)] == IF i = 0 THEN 0 ELSE upto[i - 1] + wit[i].n
        chunk(i) == 32 * ((upto[i - 1] + 31) \div 32) + 32 <= upto[i]
        held == SelectSeq([i \in 1..Len(wit) |-> [b |-> wit[i].b, n |-> IF chunk(i) THEN 1 ELSE 0]],
                          LAMBDA r : r.n = 1 /\ \E k \in Keys : PkBytes(k)[1].b = r.b)
    IN Bytes("frame", read_uint64_be(bytes, 1),
             [i \in 1..Len(held) |-> CHOOSE k \in Keys : PkBytes(k)[1].b = held[i].b],
             FALSE)

\* The bytes each egress stream has been handed after the calls in the trace
\* o, where the ingress buffer was `bytes`: the rebuilt header, what follows
\* the header in the first buffer, or a copy of the buffer.
Deliver(sent, o, bytes, witness_length, k) ==
    LET handed(e) ==
            IF e.op = "cut_through_send_bytes_header"
            THEN new_header(bytes, witness_length, PkBytes(k))
            ELSE IF e.op = "cut_through_send_bytes_rest"
            THEN cover(bytes, 13 + witness_length)
            ELSE bytes
        acc[i \in 0..Len(o)] ==
            IF i = 0 THEN sent
            ELSE IF o[i].op \in {"cut_through_send_bytes_header",
                                 "cut_through_send_bytes_rest",
                                 "cut_through_send_bytes_frame"}
                 THEN MapPut(acc[i - 1], <<o[i].t, o[i].sid>>,
                             Cat(MapGet(acc[i - 1], <<o[i].t, o[i].sid>>, <<>>),
                                 handed(o[i])))
                 ELSE acc[i - 1]
    IN acc[Len(o)]

\* The witness lengths a frame declares, and the sizes of its first buffer:
\* around 13, around 13 + witness_length, and around the same plus 65 536.
WitnessLengths == {0, 32, 65504}
FirstSizes == {12, 13, 44, 45, 65516, 65517, 65535, 65536,
               65536 + 12, 65536 + 13, 65536 + 44, 65536 + 45,
               65536 + 65516, 65536 + 65517}

\* inflight holds the bytes on the wire: frame, the frame the ingress stream
\* carries; rest, what of it has not arrived yet; sent, per egress stream
\* the bytes handed to it.
\* The peers of the node are the ones that subscribed to it (unsol_conns).
InitBytes ==
    /\ Holds(PubSubNode(MaxCap, MaxCap, TRUE, TRUE, SelfKey))
    /\ last = Quiet
    /\ mesh = <<>>
    /\ age = EmptyMap
    /\ framer = <<>>
    /\ abci = <<>>
    /\ inflight = [frame |-> <<>>, rest |-> <<>>, sent |-> EmptyMap]

NextBytes ==
    \/ DidCreateTransport(FALSE)
    \/ DidRecvSUBSCRIBE(FALSE)
    \/ ReturnToLoop
    \* a frame begins on a stream: cut_through_recv_start with its length
    \/ \E t \in Transports, id \in StreamIds, mid \in MessageIds,
          wl \in WitnessLengths, k \in 1..MaxWitness :
          LET frame == MessageFrame(mid, 1, wl, k, PayloadLen)
          IN /\ transports[t] = "active"
             /\ id \notin cut_through_used_ids[t]
             /\ Cardinality(DOMAIN cut_through_length \cup {<<t, id>>}) <= MaxSessions
             /\ Step(FALSE, Call("cut_through_recv_start", t),
                     cut_through_recv_start(
                         [Begin(Node) EXCEPT !.cut_through_used_ids[t] = @ \cup {id}],
                         t, id, size(frame)))
             /\ inflight' = [frame |-> frame, rest |-> frame, sent |-> EmptyMap]
             /\ UNCHANGED <<mesh, age, framer, abci>>
    \* the first buffer: n bytes of the frame.  Below 13 bytes the read of
    \* witness_length at offset 11 is past the end: any 16-bit value.
    \/ \E t \in Transports : \E id \in cut_through_used_ids[t] :
         \E n \in {m \in FirstSizes : m <= size(inflight.rest)} :
           LET bytes == Slice(inflight.rest, 0, n)
           IN \E witness_length \in (IF n >= 13 THEN {read_uint16_be(bytes, 11)}
                                     ELSE WitnessLengths) :
                LET short == not_enough_header(n, witness_length)
                    b == IF short THEN Bytes("frame", 0, <<>>, TRUE)
                         ELSE HeaderOf(bytes, witness_length)
                IN \E sub_ids \in SubIds(IF ~short /\ Fresh(b.id)
                                         THEN Candidates(t, b.w) ELSE {}) :
                     \E plan \in PlansIf(short, Node, t) :
                       /\ HeaderPending(t, id)
                       /\ Step(TRUE, [CutCall(t, id, b) EXCEPT !.size = n],
                               cut_through_recv_bytes(Begin(Node), t, id, b,
                                   CutArgs(sub_ids, {}, {}, plan)))
                       /\ inflight' = [inflight EXCEPT
                              !.rest = cover(@, n),
                              !.sent = Deliver(@, out', bytes, witness_length, keys)]
                       /\ UNCHANGED <<mesh, age, framer, abci>>
    \* a later buffer
    \/ \E t \in Transports : \E id \in cut_through_used_ids[t] :
         \E n \in {m \in {CutThroughThreshold, size(inflight.rest)} :
                       1 <= m /\ m <= size(inflight.rest)} :
           LET bytes == Slice(inflight.rest, 0, n)
               b == Bytes("frame", 0, <<>>, FALSE)
           IN /\ ~HeaderPending(t, id)
              /\ Step(TRUE, [CutCall(t, id, b) EXCEPT !.size = n],
                      cut_through_recv_bytes(Begin(Node), t, id, b,
                          CutArgs([p \in Transports |-> 0], {}, {}, NoPlan)))
              /\ inflight' = [inflight EXCEPT
                     !.rest = cover(@, n),
                     !.sent = Deliver(@, out', bytes, 0, keys)]
              /\ UNCHANGED <<mesh, age, framer, abci>>
    \* the frame is complete
    \/ \E t \in Transports : \E id \in cut_through_used_ids[t] :
         /\ inflight.rest = <<>>
         /\ Handle(TRUE, [Call("cut_through_recv_end", t) EXCEPT !.sid = id],
                   [cut_through_recv_end(Begin(Node), t, id)
                        EXCEPT !.cut_through_used_ids[t] = @ \ {id}])

SpecBytes == InitBytes /\ [][NextBytes]_vars

\* -------------------------------------------------------------- SpecRing
\* The dedup ring over any number of ticks: one peer sends MESSAGEs with the
\* ids in RingIds, and the message id timer ticks without bound.  age[x]
\* records, for an id x the node has inserted: ticks, the number of ticks since
\* it last inserted x (counted up to RingSize), and again, whether that
\* insertion followed an earlier one.
RingIds == 1..NumRingIds
FirstTransport == CHOOSE t \in Transports : \A u \in Transports : t <= u

RingCreateTransport == DidCreateTransportOf(FALSE, FirstTransport)

RingMessage(id) ==
    [id |-> id, ch |-> NumChannels, w |-> <<>>, ok |-> TRUE, size |-> CutThroughThreshold]

RingRecvMESSAGE ==
    \E t \in Transports, id \in RingIds :
        LET s == did_recv_MESSAGE(Begin(Node), t, RingMessage(id), {}, {}, NoPlan)
        IN /\ transports[t] = "active"
           /\ Step(FALSE, Call("did_recv_MESSAGE", t), s)
           /\ age' = IF id \notin message_id_set /\ id \in s.message_id_set
                     THEN MapPut(age, id, [ticks |-> 0, again |-> id \in DOMAIN age])
                     ELSE age
           /\ UNCHANGED <<mesh, inflight, framer, abci>>

RingTick ==
    /\ Step(FALSE, Call("message_id_timer_cb", NoTransport),
            message_id_timer_cb(Begin(Node)))
    /\ age' = [x \in DOMAIN age |->
                  [age[x] EXCEPT !.ticks = IF @ < RingSize THEN @ + 1 ELSE @]]
    /\ UNCHANGED <<mesh, inflight, framer, abci>>

InitRing ==
    /\ Holds(PubSubNode(MaxCap, MaxCap, TRUE, FALSE, SelfKey))
    /\ last = Quiet
    /\ NoMesh

NextRing ==
    \/ RingCreateTransport
    \/ RingRecvMESSAGE
    \/ RingTick

SpecRing == InitRing /\ [][NextRing]_vars

\* -------------------------------------------------------------- SpecMesh
\* Several relaying nodes.  The node with address n holds key n; its transport
\* to the node with address p is transport p.  mesh.nodes[n] is the record of
\* node n, inflight the bag of MESSAGE frames on the wire.  One message is
\* published, once, by mesh.publisher; mesh.delivered[n] counts the
\* did_recv_message calls of node n's delegate, mesh.fanouts[n] the handlers
\* of node n that transmitted the message.
MeshNodes == Transports
MeshId == CHOOSE x \in MessageIds : \A y \in MessageIds : x <= y
MeshChannel == CHOOSE c \in Channels : \A d \in Channels : c <= d
NoNode == NoTransport

BagAdd(b, m) == MapPut(b, m, MapGet(b, m, 0) + 1)
BagRemove(b, m) == IF b[m] = 1 THEN MapErase(b, m) ELSE MapPut(b, m, b[m] - 1)

\* The MESSAGE frames a handler of node n sent, put on the wire.
RECURSIVE Transmit(_, _, _, _)
Transmit(wire, n, o, i) ==
    IF i > Len(o) THEN wire
    ELSE IF o[i].op = "MESSAGE"
         THEN Transmit(BagAdd(wire, [from |-> n, to |-> o[i].t, id |-> o[i].id,
                                     ch |-> o[i].ch, w |-> o[i].w]),
                       n, o, i + 1)
         ELSE Transmit(wire, n, o, i + 1)

Sent(o) == \E i \in 1..Len(o) : o[i].op = "MESSAGE"

MeshStep(n, s, wire) ==
    /\ mesh' = [mesh EXCEPT
                   !.nodes[n] = Begin(s),
                   !.delivered[n] = @ + Deliveries(s.out, MeshId),
                   !.fanouts[n] = @ + (IF Sent(s.out) THEN 1 ELSE 0)]
    /\ inflight' = Transmit(wire, n, s.out, 1)
    /\ UNCHANGED <<nodeVars, last, age, framer, abci>>

\* Node a subscribes to node b, before the message is published: a dials b
\* (or uses the transport it has), b accepts the transport, a's SUBSCRIBE
\* reaches b.
MeshLink ==
    \E a \in MeshNodes, b \in MeshNodes :
        LET A0 == Begin(mesh.nodes[a])
            A1 == subscribe(A0, b)
            A2 == IF A1.transports[b] = "dialing"
                  THEN did_dial([A1 EXCEPT !.transports[b] = "active"], b)
                  ELSE A1
            B0 == Begin(mesh.nodes[b])
            B1 == [B0 EXCEPT !.transports[a] = "active"]
            B2 == IF \E i \in 1..Len(A2.out) : A2.out[i].op = "SUBSCRIBE"
                  THEN did_recv_SUBSCRIBE(B1, a, NoPlan)
                  ELSE B1
        IN /\ a # b
           /\ mesh.publisher = NoNode
           /\ b \notin mesh.nodes[a].sol_conns
           /\ mesh' = [mesh EXCEPT !.nodes[a] = Begin(A2), !.nodes[b] = Begin(B2)]
           /\ UNCHANGED <<nodeVars, last, age, inflight, framer, abci>>

\* The application of node p publishes the message.
MeshPublish ==
    \E p \in MeshNodes :
        LET s == publish(Begin(mesh.nodes[p]),
                         SendArgs(MeshChannel, MeshId, CutThroughThreshold, <<>>,
                                  NoTransport, {}, {}, NoPlan))
        IN /\ mesh.publisher = NoNode
           /\ mesh' = [mesh EXCEPT
                          !.publisher = p,
                          !.nodes[p] = Begin(s),
                          !.fanouts[p] = @ + (IF Sent(s.out) THEN 1 ELSE 0)]
           /\ inflight' = Transmit(inflight, p, s.out, 1)
           /\ UNCHANGED <<nodeVars, last, age, framer, abci>>

\* A frame on the wire reaches its destination.
MeshDeliver ==
    \E m \in DOMAIN inflight :
        LET s == did_recv_MESSAGE(Begin(mesh.nodes[m.to]), m.from,
                     [id |-> m.id, ch |-> m.ch, w |-> m.w, ok |-> TRUE,
                      size |-> CutThroughThreshold],
                     {}, {}, NoPlan)
        IN MeshStep(m.to, s, BagRemove(inflight, m))

InitMesh ==
    /\ Holds(PubSubNode(MaxCap, MaxCap, TRUE, TRUE, SelfKey))
    /\ last = Quiet
    /\ age = EmptyMap
    /\ mesh = [nodes |-> [n \in MeshNodes |-> PubSubNode(MaxCap, MaxCap, TRUE, TRUE, n)],
               publisher |-> NoNode,
               delivered |-> [n \in MeshNodes |-> 0],
               fanouts |-> [n \in MeshNodes |-> 0]]
    /\ inflight = EmptyMap
    /\ framer = <<>>
    /\ abci = <<>>

NextMesh ==
    \/ MeshLink
    \/ MeshPublish
    \/ MeshDeliver

SpecMesh == InitMesh /\ [][NextMesh]_vars

\* SpecMesh with a network that delivers: the stream transport retransmits
\* until a frame is acknowledged, so a MESSAGE frame on the wire reaches its
\* destination.
SpecMeshFair == SpecMesh /\ WF_vars(MeshDeliver)

\* ------------------------------------------------------------ SpecFramer
\* The length framing fiber of one stream, between the stream transport
\* below it (Source) and the layer above it (Terminal).  framer holds
\*   length  the bytes that remain of the current frame (LengthFramingFiber)
\*   next    the lengths the layer above passes to reset, frame after frame
\*   calls   the callbacks the layer above has received, in order
\*   frames  the lengths of all the frames of the stream
\*   wire    the bytes of the stream that have not arrived yet
\*   addr    the peer address of the stream
\*   handed  the number of buffers the fiber has been handed
\* The bytes of the stream are 1, 2, 3, ...: frame k is the next frames[k]
\* of them.

\* Terminal::did_recv_frame: the frame callback, then src.reset(next length).
\* did_recv_frame with a layer above that resets to the length of the first
\* frame every time.
did_recv_frame_SameLength(f) ==
    [f EXCEPT !.calls = Append(@, [op |-> "did_recv_frame", bytes |-> <<>>,
                                   br |-> 0, addr |-> f.addr]),
              !.length = IF f.next = <<>> THEN 0 ELSE Head(f.frames),
              !.next = IF f.next = <<>> THEN <<>> ELSE Tail(f.next)]

did_recv_frame(f) ==
    [f EXCEPT !.calls = Append(@, [op |-> "did_recv_frame", bytes |-> <<>>,
                                   br |-> 0, addr |-> f.addr]),
              !.length = IF f.next = <<>> THEN 0 ELSE Head(f.next),
              !.next = IF f.next = <<>> THEN <<>> ELSE Tail(f.next)]

\* LengthFramingFiber::did_recv: a buffer that ends inside the frame is
\* passed up with the bytes that remain; otherwise the head of the buffer
\* that completes the frame is passed up with 0 remaining, the frame
\* callback follows, and what is left over comes back through
\* Source::leftover.
RECURSIVE did_recv(_, _)
\* did_recv that drops what follows the end of a frame in the buffer.
did_recv_DropsLeftover(f, bytes) ==
    IF bytes = <<>> THEN f
    ELSE IF Len(bytes) < f.length
    THEN [f EXCEPT !.length = @ - Len(bytes),
                   !.calls = Append(@, [op |-> "did_recv", bytes |-> bytes,
                                        br |-> f.length - Len(bytes), addr |-> f.addr])]
    ELSE did_recv_frame(
             [f EXCEPT !.length = 0,
                       !.calls = Append(@, [op |-> "did_recv",
                                            bytes |-> SubSeq(bytes, 1, f.length),
                                            br |-> 0, addr |-> f.addr])])

did_recv(f, bytes) ==
    IF bytes = <<>> THEN f
    ELSE IF Len(bytes) < f.length
    THEN [f EXCEPT !.length = @ - Len(bytes),
                   !.calls = Append(@, [op |-> "did_recv", bytes |-> bytes,
                                        br |-> f.length - Len(bytes), addr |-> f.addr])]
    ELSE LET f1 == [f EXCEPT !.length = 0,
                             !.calls = Append(@, [op |-> "did_recv",
                                                  bytes |-> SubSeq(bytes, 1, f.length),
                                                  br |-> 0, addr |-> f.addr])]
         IN did_recv(did_recv_frame(f1), SubSeq(bytes, f.length + 1, Len(bytes)))

\* f.reset(first length) on a fresh fiber; the stream carries 1 to MaxFrames
\* frames of 1 to MaxFrameLen bytes each.
InitFramer ==
    /\ Holds(PubSubNode(MaxCap, MaxCap, TRUE, TRUE, SelfKey))
    /\ last = Quiet
    /\ mesh = <<>>
    /\ inflight = EmptyMap
    /\ age = EmptyMap
    /\ abci = <<>>
    /\ \E frames \in SeqsUpTo(1..MaxFrameLen, MaxFrames) \ {<<>>}, addr \in Transports :
          LET total[i \in 0..Len(frames)] ==
                  IF i = 0 THEN 0 ELSE total[i - 1] + frames[i]
          IN framer = [length |-> Head(frames), next |-> Tail(frames), calls |-> <<>>,
                       frames |-> frames, addr |-> addr, handed |-> 0,
                       wire |-> [i \in 1..total[Len(frames)] |-> i]]

\* The stream transport hands the fiber the next n bytes of the stream.
NextFramer ==
    \E n \in 1..Len(framer.wire) :
        /\ framer' = [did_recv(framer, SubSeq(framer.wire, 1, n))
                         EXCEPT !.wire = SubSeq(framer.wire, n + 1, Len(framer.wire)),
                                !.handed = @ + 1]
        /\ UNCHANGED <<nodeVars, last, mesh, inflight, age, abci>>

SpecFramer == InitFramer /\ [][NextFramer]_vars

\* -------------------------------------------------------------- SpecAbci
\* The Abci client (abci/near): it keeps a TCP connection to the RPC server
\* with a reconnect timer, sends a request per analyze_block and decodes the
\* responses, an 8-byte big-endian id followed by a result byte, from the
\* bytes the connection hands it in buffers cut anywhere.  abci holds the
\* fields of the object (connect_timer_interval in ms, counter, resp_id,
\* block_store as the set of its keys, id) and, beside them, connected, the
\* delay the connect timer was last started with (timer), the disconnects
\* since the last connect (fails), the ids handed to did_analyze_block
\* (analyzed), how the last did_recv ended (outcome), and the server's side:
\* the bytes on the way to the client (wire) and the responses written (sent).
Abci_did_connect(a) ==
    [a EXCEPT !.connect_timer_interval = 1000, !.connected = TRUE, !.fails = 0]

\* did_disconnect whose interval doubles without the cap.
Abci_did_disconnect_NoCap(a) ==
    [a EXCEPT !.timer = a.connect_timer_interval,
              !.connect_timer_interval = a.connect_timer_interval * 2,
              !.connected = FALSE, !.fails = @ + 1]

Abci_did_disconnect(a) ==
    LET doubled == a.connect_timer_interval * 2
    IN [a EXCEPT !.timer = a.connect_timer_interval,
                 !.connect_timer_interval = IF doubled > 64000 THEN 64000 ELSE doubled,
                 !.connected = FALSE, !.fails = @ + 1]

\* block_store.try_emplace(id, ...); return id++;
Abci_analyze_block(a) ==
    [a EXCEPT !.block_store = @ \cup {a.id}, !.id = @ + 1]

\* resp_id = (resp_id << 8) | byte, for the bytes given: at most 8 bytes are
\* shifted into one id (counter), so the 64-bit value does not wrap.
RECURSIVE Abci_did_recv(_, _)
Abci_did_recv(a, bytes) ==
    LET shift(v, bs) ==
            LET acc[k \in 0..Len(bs)] == IF k = 0 THEN v ELSE acc[k - 1] * 256 + bs[k]
            IN acc[Len(bs)]
    IN IF Len(bytes) + a.counter < 8
       THEN \* Partial id
            [a EXCEPT !.resp_id = shift(a.resp_id, bytes),
                      !.counter = @ + Len(bytes), !.outcome = "partial"]
       ELSE LET i == 8 - a.counter
                a1 == [a EXCEPT !.resp_id = shift(a.resp_id, SubSeq(bytes, 1, i)),
                                !.counter = 8]
                rest == SubSeq(bytes, i + 1, Len(bytes))
                id == a1.resp_id
            IN IF rest = <<>>
               THEN \* do not have result
                    [a1 EXCEPT !.outcome = "partial"]
               ELSE IF ~(rest[1] > 0)
               THEN \* RPC error
                    [a1 EXCEPT !.block_store = @ \ {id}, !.outcome = "error"]
               ELSE IF id \notin a1.block_store
               THEN \* Unknown request
                    [a1 EXCEPT !.outcome = "unknown"]
               ELSE LET a2 == [a1 EXCEPT !.block_store = @ \ {id},
                                         !.analyzed = Append(@, id),
                                         !.counter = 0, !.resp_id = 0,
                                         !.outcome = "success"]
                    IN IF Len(rest) = 1 THEN a2
                       ELSE Abci_did_recv(a2, Tail(rest))

InitAbci ==
    /\ Holds(PubSubNode(MaxCap, MaxCap, TRUE, TRUE, SelfKey))
    /\ last = Quiet
    /\ mesh = <<>>
    /\ inflight = EmptyMap
    /\ age = EmptyMap
    /\ framer = <<>>
    /\ abci = [connect_timer_interval |-> 1000, counter |-> 0, resp_id |-> 0,
               block_store |-> {}, id |-> 0, connected |-> FALSE, timer |-> 0,
               fails |-> 0, analyzed |-> <<>>, outcome |-> "none", wire |-> <<>>,
               sent |-> 0]

NextAbci ==
    LET Becomes(a) == /\ abci' = a
                      /\ UNCHANGED <<nodeVars, last, mesh, inflight, age, framer>>
    IN \/ /\ ~abci.connected
          /\ Becomes(Abci_did_connect(abci))
       \* the connection breaks, or the attempt the timer made fails
       \/ /\ abci.fails < MaxDisconnects
          /\ Becomes(Abci_did_disconnect(abci))
       \/ /\ abci.id < MaxBlocks
          /\ Becomes(Abci_analyze_block(abci))
       \* the server writes a response: the id in 8 bytes, then the result
       \/ \E id \in 0..(MaxBlocks - 1), res \in 0..1 :
              /\ abci.connected
              /\ abci.sent < MaxResponses
              /\ Becomes([abci EXCEPT !.wire = @ \o <<0, 0, 0, 0, 0, 0, 0, id, res>>,
                                      !.sent = @ + 1])
       \* the connection hands the client the next n bytes
       \/ \E n \in 1..Len(abci.wire) :
              Becomes([Abci_did_recv(abci, SubSeq(abci.wire, 1, n))
                          EXCEPT !.wire = SubSeq(abci.wire, n + 1, Len(abci.wire))])

SpecAbci == InitAbci /\ [][NextAbci]_vars

\* =================================================================== claims

\* C1: every transport is in at most one of sol_conns, sol_standby_conns and
\* unsol_conns, after any sequence of subscribe, did_dial, incoming SUBSCRIBE
\* and UNSUBSCRIBE, did_close and timer ticks.
C1_OneSlotPerTransport ==
    /\ sol_conns \cap sol_standby_conns = {}
    /\ sol_conns \cap unsol_conns = {}
    /\ sol_standby_conns \cap unsol_conns = {}

\* All three slot sets hold a peer at once.
C1_Witness ==
    /\ sol_conns # {}
    /\ sol_standby_conns # {}
    /\ unsol_conns # {}

\* C2: |sol_conns| <= max_sol_conns and |unsol_conns| <= max_unsol_conns in
\* every reachable state, for every value of the caps (0 included).
C2_SlotCaps ==
    /\ Cardinality(sol_conns) <= max_sol_conns
    /\ Cardinality(unsol_conns) <= max_unsol_conns

\* Both sets are at their cap and a further peer waits in standby.
C2_Witness ==
    /\ max_sol_conns > 0
    /\ max_unsol_conns > 0
    /\ Cardinality(sol_conns) = max_sol_conns
    /\ Cardinality(unsol_conns) = max_unsol_conns
    /\ sol_standby_conns # {}

\* C3: in every step, did_recv_message is called exactly once for a message
\* id that the step inserts into message_id_set (ordinary MESSAGE path or
\* cut-through path) and not at all for any other id; so, while an id stays in
\* message_id_set, it was delivered once and is never delivered again.
C3_DeliveredOncePerInsertion ==
    [][\A x \in MessageIds :
           Deliveries(out', x) =
               IF x \notin message_id_set /\ x \in message_id_set' THEN 1 ELSE 0]_vars

\* C4: a relayed message is never transmitted to a peer whose static public key
\* is in the message's witness header (here: on the ordinary MESSAGE relay).
C4_WitnessedPeersSkipped ==
    last.op = "did_recv_MESSAGE" =>
        \A i \in 1..Len(out) :
            IsSend(out[i]) => get_remote_static_pk(out[i].t) \notin Range(last.w)

\* C5: the node that published the message never accepts it when it comes
\* back through other nodes: its delegate's did_recv_message is not called for
\* it and the node transmits it in no handler after the publish.
C5_PublisherDropsOwnMessage ==
    mesh.publisher # NoNode =>
        /\ mesh.delivered[mesh.publisher] = 0
        /\ mesh.fanouts[mesh.publisher] <= 1

\* C6: an id the node inserted stays in message_id_set after each of the next
\* RingSize - 1 = 255 dedup ticks, is gone from it once RingSize = 256 ticks
\* have passed, and a MESSAGE that then carries the id is accepted as fresh:
\* the id is inserted again and did_recv_message is called for it.
C6_RingRetention ==
    \A x \in DOMAIN age :
        /\ age[x].ticks < RingSize => x \in message_id_set
        /\ age[x].ticks = RingSize =>
               /\ x \notin message_id_set
               /\ \A t \in Transports :
                      transports[t] = "active" =>
                          LET s == did_recv_MESSAGE(Begin(Node), t, RingMessage(x),
                                                    {}, {}, NoPlan)
                          IN /\ x \in s.message_id_set
                             /\ Deliveries(s.out, x) = 1

\* An id that expired once and was accepted again has now survived 255 ticks.
C6_Witness ==
    \E x \in DOMAIN age :
        /\ age[x].again
        /\ age[x].ticks = RingSize - 1
        /\ x \in message_id_set

\* C7: publish transmits the message exactly once to each transport that is in
\* sol_conns or unsol_conns when it is called and whose address is not the
\* excluded one, and to no other transport.
C7_PublishFanOut ==
    [][last'.op = "publish" =>
         \A t \in Transports :
             SendsTo(out', t) =
                 IF t \in Peers /\ dst_addr(t) # last'.excluded THEN 1 ELSE 0]_vars

\* C8: a MESSAGE with an id not in message_id_set that verifies, on a relaying
\* node: the id is in message_id_set and in the current bucket, the message went
\* once to every solicited and unsolicited peer other than the source and to no
\* one else, and did_recv_message was called once, after the forwarding.
C8_FreshMessageRelayed ==
    [][(/\ last'.op = "did_recv_MESSAGE"
        /\ last'.id \notin message_id_set
        /\ last'.ok
        /\ enable_relay) =>
         /\ last'.id \in message_id_set'
         /\ last'.id \in Range(Bucket(message_id_events', message_id_idx))
         /\ \A t \in Transports :
                SendsTo(out', t) = IF t \in Peers /\ t # last'.t THEN 1 ELSE 0
         /\ Deliveries(out', last'.id) = 1
         /\ out' # <<>>
         /\ out'[Len(out')].op = "did_recv_message"]_vars

\* C9: a MESSAGE with an id not in message_id_set for which attester.verify
\* returns false: the transport is closed, the handler returns -1, the id is in
\* neither message_id_set nor the ring, nothing is transmitted and
\* did_recv_message is not called.
C9_VerifyFailureCloses ==
    [][(/\ last'.op = "did_recv_MESSAGE"
        /\ last'.id \notin message_id_set
        /\ ~last'.ok) =>
         /\ ret' = -1
         /\ Closed(out', last'.t)
         /\ transports'[last'.t] = "none"
         /\ message_id_set' = message_id_set
         /\ message_id_events' = message_id_events
         /\ \A t \in Transports : SendsTo(out', t) = 0
         /\ Deliveries(out', last'.id) = 0]_vars

\* A relaying node with a peer left to relay to has just rejected a message.
C9_Witness ==
    /\ last.op = "did_recv_MESSAGE"
    /\ ~last.ok
    /\ last.id \notin message_id_set
    /\ ret = -1
    /\ enable_relay
    /\ Peers # {}

\* C10: a MESSAGE whose id is in message_id_set changes nothing: no field of the
\* node changes, nothing is sent, did_recv_message is not called, the transport
\* is not closed and the handler returns 0.
C10_DuplicateIgnored ==
    [][(/\ last'.op = "did_recv_MESSAGE"
        /\ last'.id \in message_id_set) =>
         /\ out' = <<>>
         /\ ret' = 0
         /\ transports'[last'.t] = "active"
         /\ UNCHANGED nodeVars]_vars

\* A relaying node with a peer other than the sender has just dropped a
\* duplicate.
C10_Witness ==
    /\ last.op = "did_recv_MESSAGE"
    /\ last.id \in message_id_set
    /\ out = <<>>
    /\ enable_relay
    /\ Peers \ {last.t} # {}

\* C11: subscribe(addr) called again right after subscribe(addr) leaves the
\* slot sets, the blacklist and the transports as the first call left them and
\* sends nothing (no SUBSCRIBE, no RESPONSE, no dial); and subscribe(addr) for
\* an address whose transport exists but is not active changes nothing.
C11_SubscribeIdempotent ==
    /\ last.op = "subscribe" =>
           LET s2 == subscribe(Begin(Node), last.t)
           IN /\ Slots(s2) = Slots(Node)
              /\ s2.out = <<>>
    /\ \A addr \in Transports :
           transports[addr] = "dialing" =>
               subscribe(Begin(Node), addr) = Begin(Node)

\* The first subscribe has just put the peer into sol_conns.
C11_Witness ==
    /\ last.op = "subscribe"
    /\ last.t \in sol_conns
    /\ Count(out, "RESPONSE_SUBSCRIBED", last.t) = 1

\* C12: whenever add_sol_conn is invoked (by subscribe, did_dial or a SUBSCRIBE
\* from a blacklisted sender) for a transport that is not in sol_conns while
\* sol_conns holds max_sol_conns peers, sol_conns is left unchanged and the
\* transport ends up in sol_standby_conns, whatever slot it was in before.
C12_FullSolicitedDemotes ==
    [][LET t == last'.t
       IN (/\ \/ /\ last'.op = "subscribe"
                 /\ transports[t] = "active"
                 /\ dst_addr(t) \notin blacklist_addr
              \/ last'.op = "did_dial"
              \/ /\ last'.op = "did_recv_SUBSCRIBE"
                 /\ accept_unsol_conn
                 /\ dst_addr(t) \in blacklist_addr
           /\ t \notin sol_conns
           /\ Cardinality(sol_conns) >= max_sol_conns)
          => /\ sol_conns' = sol_conns
             /\ t \in sol_standby_conns']_vars

\* C13: a transport that closes is in no slot set afterwards, and its address
\* is added to the blacklist if and only if the transport was in sol_conns or
\* sol_standby_conns when it closed; the blacklist is otherwise left as it was.
C13_CloseRemovesAndBlacklists ==
    [][\A t \in Transports :
           Closed(out', t) =>
               /\ t \notin sol_conns' \cup sol_standby_conns' \cup unsol_conns'
               /\ blacklist_addr' =
                      blacklist_addr \cup
                          (IF t \in sol_conns \cup sol_standby_conns
                           THEN {dst_addr(t)} ELSE {})]_vars

\* A solicited peer has just closed and its address is on the blacklist.
C13_Witness ==
    /\ last.op = "did_close"
    /\ Closed(out, last.t)
    /\ Count(out, "RESPONSE_UNSUBSCRIBED", last.t) = 1
    /\ dst_addr(last.t) \in blacklist_addr

\* C14: while an address is on the blacklist, subscribe(addr) is a no-op (no
\* dial, no slot change, no message sent, blacklist unchanged); an address
\* leaves the blacklist at the blacklist tick, which empties the blacklist
\* whatever the age of its entries, or earlier when a SUBSCRIBE arrives from
\* it; subscribe(addr) for an address that is not on the blacklist proceeds
\* normally: it dials an unknown address and puts an active transport that is
\* in no slot into sol_conns when there is room.
C14_NoOpWhileBlacklisted ==
    [][/\ last'.op = "subscribe" =>
              LET addr == last'.t
              IN IF addr \in blacklist_addr
                 THEN /\ out' = <<>>
                      /\ Slots(Node)' = Slots(Node)
                 ELSE /\ transports[addr] = "none" =>
                              /\ out' = <<Ev("dial", addr)>>
                              /\ transports'[addr] = "dialing"
                      /\ (/\ transports[addr] = "active"
                          /\ ~check_tranport_present(Node, addr)
                          /\ Cardinality(sol_conns) < max_sol_conns)
                             => addr \in sol_conns'
       /\ last'.op = "blacklist_timer_cb" => blacklist_addr' = {}
       /\ blacklist_addr' \subseteq blacklist_addr
              \/ last'.op \in {"did_close", "did_recv_SUBSCRIBE"}
       /\ blacklist_addr \subseteq blacklist_addr'
              \/ last'.op \in {"blacklist_timer_cb", "did_recv_SUBSCRIBE"}]_vars

\* subscribe has just been called for an address that has been on the blacklist
\* for a dedup tick.
C14_Witness ==
    /\ last.op = "subscribe"
    /\ last.t \in blacklist_addr
    /\ last.t \in DOMAIN age
    /\ age[last.t].ticks = MaxTicks

\* C14 as stated: from the moment an address enters the blacklist until the
\* next blacklist tick, subscribe(addr) is a no-op (no dial, no slot change, no
\* message sent, blacklist unchanged).
C14_NoOpUntilTick ==
    [][(last'.op = "subscribe" /\ last'.t \in DOMAIN age)
           => /\ out' = <<>>
              /\ Slots(Node)' = Slots(Node)]_vars

C16_BlacklistedSubscribePromoted ==
    [][(/\ last'.op = "did_recv_SUBSCRIBE"
        /\ accept_unsol_conn
        /\ dst_addr(last'.t) \in blacklist_addr)
           => /\ dst_addr(last'.t) \notin blacklist_addr'
              /\ last'.t \in sol_conns']_vars

\* C17: on an incoming SUBSCRIBE (accept_unsol_conn true, sender not on the
\* blacklist), a transport that is in no slot is installed into unsol_conns,
\* and a transport that is already in some slot is closed.
C17_SubscribeInstallsOrCloses ==
    [][(/\ last'.op = "did_recv_SUBSCRIBE"
        /\ accept_unsol_conn
        /\ dst_addr(last'.t) \notin blacklist_addr)
           => IF check_tranport_present(Node, last'.t)
              THEN Closed(out', last'.t)
              ELSE last'.t \in unsol_conns']_vars

\* C18: in every handler, a transport is sent exactly one RESPONSE SUBSCRIBED
\* for each insertion of it into sol_conns or unsol_conns and exactly one
\* RESPONSE UNSUBSCRIBED for its removal from sol_conns, and no other RESPONSE:
\* none for entering or leaving sol_standby_conns or for leaving unsol_conns.
C18_ResponsePerSlotChange ==
    [][\A t \in Transports :
           /\ Count(out', "RESPONSE_SUBSCRIBED", t) =
                  (IF t \notin sol_conns /\ t \in sol_conns' THEN 1 ELSE 0)
                  + (IF t \notin unsol_conns /\ t \in unsol_conns' THEN 1 ELSE 0)
           /\ Count(out', "RESPONSE_UNSUBSCRIBED", t) =
                  (IF t \in sol_conns /\ t \notin sol_conns' THEN 1 ELSE 0)]_vars

\* A peer selection tick has removed one solicited peer and promoted a standby
\* peer: one RESPONSE each.
C18_Witness ==
    /\ last.op = "peer_selection_timer_cb"
    /\ \E t \in Transports \ sol_conns, u \in sol_conns :
           /\ Count(out, "RESPONSE_UNSUBSCRIBED", t) = 1
           /\ Count(out, "RESPONSE_SUBSCRIBED", u) = 1

\* C19: unsubscribe(addr) for an address with a known transport sends exactly
\* one UNSUBSCRIBE per delegate channel on that transport, and nothing else,
\* and changes no slot set and no blacklist entry; for an unknown address it
\* sends nothing and changes nothing.
C19_UnsubscribeOnlySends ==
    [][last'.op = "unsubscribe" =>
           /\ Slots(Node)' = Slots(Node)
           /\ IF transports[last'.t] # "none"
              THEN /\ Len(out') = NumChannels
                   /\ \A ch \in Channels :
                          Cardinality({i \in 1..Len(out') :
                              out'[i] = EvCh("UNSUBSCRIBE", last'.t, ch)}) = 1
              ELSE out' = <<>>]_vars

\* unsubscribe has just been called for a solicited peer, which stays solicited.
C19_Witness ==
    /\ last.op = "unsubscribe"
    /\ last.t \in sol_conns
    /\ Len(out) = NumChannels
    /\ Count(out, "UNSUBSCRIBE", last.t) = NumChannels

\* C20: every transmission of a publish or a relay goes by the cut-through
\* stream exactly when the payload is larger than 50 000 bytes: a payload of
\* 50 000 bytes is sent as a framed MESSAGE, one of 50 001 bytes by
\* cut_through_send.
C20_CutThroughAboveThreshold ==
    last.op \in {"publish", "did_recv_MESSAGE"} =>
        \A i \in 1..Len(out) :
            IsSend(out[i]) =>
                IF last.size > 50000
                THEN out[i].op = "cut_through_send"
                ELSE out[i].op = "MESSAGE"

\* A payload of exactly 50 000 bytes has just been published and went out as a
\* framed MESSAGE.
C20_Witness ==
    /\ last.op = "publish"
    /\ last.size = 50000
    /\ \E i \in 1..Len(out) : out[i].op = "MESSAGE"

\* C21: when a cut-through frame has arrived whole, without skip or failure,
\* the bytes handed to each egress stream of the session are, put together,
\* the frame with its 2-byte witness_length raised by 32 and this node's
\* 32-byte public key inserted directly after the witness, every other byte
\* as it came and in order: declared length + 32 bytes in all.
C21_EgressBytes ==
    [][last'.op = "cut_through_recv_end"
           => \A e \in Range(MapGet(cut_through_map, <<last'.t, last'.sid>>, <<>>)) :
                  LET frame == inflight.frame
                      handed == MapGet(inflight.sent, e, <<>>)
                      witness_length == read_uint16_be(frame, 11)
                  IN /\ size(handed) = cut_through_length[<<last'.t, last'.sid>>] + 32
                     /\ Slice(handed, 0, 11) = Slice(frame, 0, 11)
                     /\ read_uint16_be(handed, 11) = witness_length + 32
                     /\ Slice(handed, 13, witness_length) = Slice(frame, 13, witness_length)
                     /\ Slice(handed, 13 + witness_length, 32) = PkBytes(keys)
                     /\ cover(handed, 13 + witness_length + 32)
                            = cover(frame, 13 + witness_length)]_vars

\* C22: on the first buffer of a stream with a fresh message id,
\* cut_through_send_start is called once on each transport in sol_conns or
\* unsol_conns, other than the ingress transport, whose public key is not in
\* the witness, and on no other; and (when no send of that handler fails) the
\* session's subscriber list is then exactly the pairs (transport, stream id)
\* for which the call returned a non-zero stream id, each once.
C22_SubscriberList ==
    [][(/\ last'.op = "cut_through_recv_bytes"
        /\ HeaderPending(last'.t, last'.sid)
        /\ last'.ok
        /\ last'.id \notin message_id_set)
           => LET t == last'.t
                  starts == {i \in 1..Len(out') : out'[i].op = "cut_through_send_start"}
                  wanted == {p \in sol_conns \cup unsol_conns :
                                /\ p # t
                                /\ get_remote_static_pk(p) \notin Range(last'.w)}
                  opened == {<<out'[i].t, out'[i].sid>> : i \in {j \in starts : out'[j].sid # 0}}
                  subs == cut_through_map'[<<t, last'.sid>>]
              IN /\ \A p \in Transports :
                        Count(out', "cut_through_send_start", p) =
                            IF p \in wanted THEN 1 ELSE 0
                 /\ (\A p \in Transports : ~Closed(out', p))
                        => /\ Range(subs) = opened
                           /\ Len(subs) = Cardinality(opened)]_vars

\* A session has just been set up: one peer was left out because its key is in
\* the witness, another opened an egress stream and is the one subscriber.
C22_Witness ==
    /\ last.op = "cut_through_recv_bytes"
    /\ last.ok
    /\ \E p \in Peers \ {last.t} : get_remote_static_pk(p) \in Range(last.w)
    /\ \E i \in 1..Len(out) : out[i].op = "cut_through_send_start" /\ out[i].sid # 0
    /\ Len(cut_through_map[<<last.t, last.sid>>]) = 1

\* C23: when the message id in the first buffer of a cut-through stream is
\* already in message_id_set, the handler calls cut_through_send_skip(id) on
\* the ingress transport and does nothing else: it opens no egress stream and
\* forwards no byte, and the session's subscriber list is empty.  A later
\* buffer of a stream is forwarded only to entries of the session's subscriber
\* list, and that list gains entries only on the first buffer of a stream with
\* a fresh id; so no later buffer of the skipped stream reaches any peer.
C23_DuplicateStreamSkipped ==
    [][LET t == last'.t
           id == last'.sid
           first == last'.op = "cut_through_recv_bytes" /\ HeaderPending(t, id)
           later == last'.op = "cut_through_recv_bytes" /\ ~HeaderPending(t, id)
           subs == MapGet(cut_through_map, <<t, id>>, <<>>)
       IN /\ (first /\ last'.ok /\ last'.id \in message_id_set)
              => /\ out' = <<EvSid("cut_through_send_skip", t, id)>>
                 /\ ret' = -1
                 /\ subs = <<>>
                 /\ cut_through_map' = cut_through_map
          /\ later
              => \A i \in 1..Len(out') :
                     /\ out'[i].op # "cut_through_send_start"
                     /\ out'[i].op = "cut_through_send_bytes_frame"
                            => <<out'[i].t, out'[i].sid>> \in Range(subs)
          /\ ~(first /\ last'.ok /\ last'.id \notin message_id_set)
              => \A key \in DOMAIN cut_through_map' :
                     Range(cut_through_map'[key])
                         \subseteq Range(MapGet(cut_through_map, key, <<>>))]_vars

\* The first buffer of a stream has just been read and carried an id that was
\* already in message_id_set: the skip was sent.
C23_Witness ==
    /\ last.op = "cut_through_recv_bytes"
    /\ last.ok
    /\ out = <<EvSid("cut_through_send_skip", last.t, last.sid)>>
    /\ ret = -1
    /\ Peers \ {last.t} # {}

\* C24: when cut_through_send_bytes fails for a subscriber while a buffer is
\* forwarded, that subscriber's transport, and no other, is closed and leaves
\* the session's subscriber list, and every other subscriber of the session is
\* still sent that buffer, once, and stays in the list for the later buffers.
C24_FailedSubscriberOnly ==
    [][(/\ last'.op = "cut_through_recv_bytes"
        /\ ~HeaderPending(last'.t, last'.sid)
        /\ \E p \in Transports : Closed(out', p))
           => LET key == <<last'.t, last'.sid>>
                  subs == MapGet(cut_through_map, key, <<>>)
                  failed == {p \in Transports : Closed(out', p)}
              IN /\ Cardinality(failed) = 1
                 /\ \A e \in Range(subs) :
                        Cardinality({i \in 1..Len(out') :
                            /\ out'[i].op = "cut_through_send_bytes_frame"
                            /\ out'[i].t = e[1]
                            /\ out'[i].sid = e[2]}) = 1
                 /\ Range(cut_through_map'[key]) =
                        {e \in Range(subs) : e[1] \notin failed}]_vars

\* C25: a session's entries in cut_through_map, cut_through_length and
\* cut_through_header_recv do not outlive the session: after
\* cut_through_recv_end, after the skip of a duplicate, and after the ingress
\* transport has closed, none of the three maps has an entry for its key.
C25_SessionEntriesErased ==
    [][LET entries == DOMAIN cut_through_map' \cup DOMAIN cut_through_length'
                          \cup DOMAIN cut_through_header_recv'
       IN /\ last'.op = "cut_through_recv_end"
              => <<last'.t, last'.sid>> \notin entries
          /\ (\E i \in 1..Len(out') : out'[i].op = "cut_through_send_skip")
              => <<last'.t, last'.sid>> \notin entries
          /\ \A t \in Transports :
                 (transports[t] # "none" /\ transports'[t] = "none")
                     => \A id \in StreamIds : <<t, id>> \notin entries]_vars

\* C26: when a transport closes, cut_through_send_flush is called exactly once
\* on every egress stream of every session that is running on it as ingress
\* (the streams in its cut_through_used_ids), on no other stream, and those
\* sessions are gone from cut_through_map afterwards: the flushes are made
\* from the list before it is erased.
C26_IngressCloseFlushes ==
    [][\A t \in Transports :
           Closed(out', t) =>
               LET egress == UNION {Range(MapGet(cut_through_map, <<t, id>>, <<>>)) :
                                        id \in cut_through_used_ids[t]}
               IN /\ \A p \in Transports, sid \in 0..NumStreams :
                         Cardinality({i \in 1..Len(out') :
                             out'[i] = EvSid("cut_through_send_flush", p, sid)}) =
                                 IF <<p, sid>> \in egress THEN 1 ELSE 0
                  /\ \A id \in cut_through_used_ids[t] :
                         <<t, id>> \notin DOMAIN cut_through_map']_vars

\* The ingress transport of a session with a subscriber has just closed and
\* the subscriber's stream was flushed.
C26_Witness ==
    /\ last.op = "did_close"
    /\ \E i \in 1..Len(out) :
           /\ out[i].op = "cut_through_send_flush"
           /\ out[i].t # last.t
           /\ transports[out[i].t] = "active"
    /\ <<last.t, NumStreams>> \notin DOMAIN cut_through_map

\* C27: once a transport has closed, nothing is called on it any more: in the
\* handler in which it closes, no send (RESPONSE, MESSAGE, HEARTBEAT,
\* cut_through_send_bytes, _end, _flush) on it follows the close; afterwards it
\* is in no slot set and in no session's subscriber list; and while it stays
\* closed no handler sends on it.
C27_NothingSentAfterClose ==
    [][\A t \in Transports :
           /\ \A i \in 1..Len(out') :
                  (out'[i].op = "close" /\ out'[i].t = t)
                      => \A j \in (i + 1)..Len(out') : out'[j].t # t
           /\ Closed(out', t) =>
                  /\ ~check_tranport_present(Node', t)
                  /\ \A key \in DOMAIN cut_through_map' :
                         \A e \in Range(cut_through_map'[key]) : e[1] # t
           /\ (transports[t] = "none" /\ transports'[t] = "none")
                  => \A j \in 1..Len(out') : out'[j].t = t => out'[j].op = "dial"]_vars

\* C28: when a stream of n frames has arrived, in whatever buffers (several
\* frames in one buffer, one frame across several buffers), the framer has
\* made the frame callback exactly n times and the payload slices it passed
\* up, put together in order, are the n frames one after the other.
C28_FramerRoundTrip ==
    LET calls == framer.calls
        n == Len(framer.frames)
        joined[i \in 0..Len(calls)] ==
            IF i = 0 THEN <<>>
            ELSE IF calls[i].op = "did_recv" THEN joined[i - 1] \o calls[i].bytes
            ELSE joined[i - 1]
        total[i \in 0..n] == IF i = 0 THEN 0 ELSE total[i - 1] + framer.frames[i]
    IN (framer # <<>> /\ framer.wire = <<>>)
           => /\ Cardinality({i \in 1..Len(calls) : calls[i].op = "did_recv_frame"}) = n
              /\ joined[Len(calls)] = [i \in 1..total[n] |-> i]

\* A stream of MaxFrames frames has arrived in two buffers, and one of the
\* frames was split between them: the second buffer held the end of that
\* frame and every frame after it.
C28_Witness ==
    /\ framer # <<>>
    /\ framer.wire = <<>>
    /\ Len(framer.frames) = MaxFrames
    /\ framer.handed = 2
    /\ framer.calls[1].br > 0

\* C29: when the first buffer of a cut-through stream is shorter than the
\* header it declares, the ingress transport is closed and its address is on
\* the blacklist afterwards, whichever slot the transport was in.
C29_ShortHeaderBlacklists ==
    [][(/\ last'.op = "cut_through_recv_bytes"
        /\ HeaderPending(last'.t, last'.sid)
        /\ ~last'.ok)
           => /\ Closed(out', last'.t)
              /\ dst_addr(last'.t) \in blacklist_addr']_vars

\* C30: the first buffer of a stream is closed as a protocol error exactly
\* when it holds fewer than 13 + witness_length bytes, whatever its size
\* (below 13, or 65 536 and more) and whatever witness length it declares.
C30_ClosedIffTooShort ==
    [][(/\ last'.op = "cut_through_recv_bytes"
        /\ HeaderPending(last'.t, last'.sid))
           => LET n == last'.size
                  \* the buffer is the first n bytes of what had not arrived
                  witness_length == read_uint16_be(inflight.rest, 11)
                  fewer == n < 13 \/ n < 13 + witness_length
              IN (Closed(out', last'.t) /\ ret' = -1) <=> fewer]_vars

C33_FrameInsideOneBuffer ==
    [][LET n == Len(framer.wire) - Len(framer'.wire)
           from == framer.wire[1]
           to == from + n - 1
           new == SubSeq(framer'.calls, Len(framer.calls) + 1, Len(framer'.calls))
           frames == framer.frames
           total[k \in 0..Len(frames)] == IF k = 0 THEN 0 ELSE total[k - 1] + frames[k]
           bytes(a, b) == [i \in 1..(b - a + 1) |-> a + i - 1]
           upto(k) == IF total[k] < to THEN total[k] ELSE to
       IN (framer # <<>> /\ n > 0)
              => \A k \in 1..Len(frames) :
                     (total[k - 1] + 1 >= from /\ total[k] <= to)
                         => \E i \in 1..(Len(new) - 1) :
                                /\ new[i] = [op |-> "did_recv",
                                             bytes |-> bytes(total[k - 1] + 1, total[k]),
                                             br |-> 0, addr |-> framer.addr]
                                /\ new[i + 1] = [op |-> "did_recv_frame", bytes |-> <<>>,
                                                 br |-> 0, addr |-> framer.addr]
                                /\ \A j \in 1..Len(new) :
                                       j # i => Range(new[j].bytes) \cap Range(new[i].bytes) = {}
                                /\ (k < Len(frames) /\ total[k] < to)
                                       => /\ i + 2 <= Len(new)
                                          /\ new[i + 2] =
                                                 [op |-> "did_recv",
                                                  bytes |-> bytes(total[k] + 1, upto(k + 1)),
                                                  br |-> total[k + 1] - upto(k + 1),
                                                  addr |-> framer.addr]]_vars

\* A stream of MaxFrames frames has arrived in one buffer.
C33_Witness ==
    /\ framer # <<>>
    /\ framer.wire = <<>>
    /\ framer.handed = 1
    /\ Len(framer.frames) = MaxFrames
    /\ Len(framer.calls) = 2 * MaxFrames

\* C34: the n-th disconnect in a row, with no connect between, starts the
\* connect timer with 1 s * 2^(n-1), at most 64 s: 1, 2, 4, ..., 64, 64, ...
\* seconds; after a connect, and before the first disconnect, the next delay
\* is 1 s; every delay is between 1 s and 64 s.
C34_ReconnectBackoff ==
    abci # <<>> =>
        LET doubled == 1000 * 2 ^ (abci.fails - 1)
        IN /\ abci.fails > 0
                  => abci.timer = IF doubled > 64000 THEN 64000 ELSE doubled
           /\ abci.fails = 0 => abci.connect_timer_interval = 1000
           /\ (abci.connected \/ abci.fails > 0 \/ abci.timer # 0)
                  => abci.connect_timer_interval \in 1000..64000
           /\ abci.timer # 0 => abci.timer \in 1000..64000

\* The delay has stayed at 64 s: a disconnect after the one that reached it.
C34_Witness ==
    /\ abci # <<>>
    /\ abci.fails = MaxDisconnects
    /\ abci.timer = 64000
    /\ abci.connect_timer_interval = 64000

\* C35: in a finite mesh of relaying nodes, with no dedup tick, one publish
\* causes finitely many MESSAGE transmissions: from some point on no copy of
\* the message is on the wire, and the delegate of each node other than the
\* publisher has been given the message at most once.
C35_MeshTerminates ==
    /\ [](\A n \in MeshNodes \ {mesh.publisher} : mesh.delivered[n] <= 1)
    /\ <>[](inflight = EmptyMap)

\* The message has been published and relayed, every other node has it, and
\* nothing is on the wire any more.
C35_Witness ==
    /\ mesh.publisher # NoNode
    /\ inflight = EmptyMap
    /\ \A n \in MeshNodes \ {mesh.publisher} : mesh.delivered[n] = 1
    /\ \E n \in MeshNodes \ {mesh.publisher} : mesh.fanouts[n] >= 1

\* C36: in every reachable state message_id_set is the set of the ids held
\* in the buckets of message_id_events, every id is held at exactly one
\* position of one bucket, and message_id_idx is within 0..255.
C36_RingInvariant ==
    LET positions(x) == {<<i, j>> \in (DOMAIN message_id_events) \X (1..NumIds + 1) :
                             /\ j <= Len(message_id_events[i])
                             /\ message_id_events[i][j] = x}
    IN /\ message_id_set =
              UNION {Range(message_id_events[i]) : i \in DOMAIN message_id_events}
       /\ \A i \in DOMAIN message_id_events : Len(message_id_events[i]) <= NumIds
       /\ \A x \in message_id_set : Cardinality(positions(x)) = 1
       /\ message_id_idx \in 0..(RingSize - 1)
       /\ DOMAIN message_id_events \subseteq 0..(RingSize - 1)

\* The ring has dropped an id and the node has inserted it again since; the
\* index has wrapped at least once.
C36_Witness ==
    \E x \in DOMAIN age :
        /\ age[x].again
        /\ x \in message_id_set
        /\ message_id_idx = RingSize - 1

\* C37: an id enters message_id_set only in the handling of a MESSAGE on
\* which attester.verify succeeded, on the ordinary and on the cut-through
\* path alike, so that an unverified message cannot make a later valid
\* message with the same id a duplicate.
C37_InsertedOnlyAfterVerify ==
    [][\A x \in message_id_set' \ message_id_set :
           /\ last'.op = "did_recv_MESSAGE"
           /\ last'.id = x
           /\ last'.ok]_vars

\* C38: every transmission of a publish or of a relay goes by cut-through
\* exactly when the frame create_MESSAGE builds for it (here with an empty
\* attestation and a witness of a 2-byte length and 32 bytes per key) is
\* longer than the threshold above which the receiving transport puts the
\* stream in cut-through mode.
C38_SenderAndReceiverAgree ==
    last.op \in {"publish", "did_recv_MESSAGE"} =>
        \A i \in 1..Len(out) :
            IsSend(out[i]) =>
                (out[i].op = "cut_through_send"
                    <=> create_MESSAGE_size(last.size, 0, 2 + 32 * Len(out[i].w))
                            > CutThroughThreshold)

\* C39: an incoming SUBSCRIBE (accept_unsol_conn true, sender not on the
\* blacklist) from a transport that is in no slot, while unsol_conns already
\* holds max_unsol_conns peers, closes that transport and returns -1; the
\* transport is in no slot afterwards, unsol_conns is as it was and the
\* sender's address is not put on the blacklist.
C39_SubscribeWhenUnsolFull ==
    [][(/\ last'.op = "did_recv_SUBSCRIBE"
        /\ accept_unsol_conn
        /\ dst_addr(last'.t) \notin blacklist_addr
        /\ ~check_tranport_present(Node, last'.t)
        /\ Cardinality(unsol_conns) >= max_unsol_conns)
           => /\ Closed(out', last'.t)
              /\ ret' = -1
              /\ ~check_tranport_present(Node', last'.t)
              /\ unsol_conns' = unsol_conns
              /\ blacklist_addr' = blacklist_addr]_vars

\* A SUBSCRIBE from a transport in no slot has been answered by closing the
\* transport while unsol_conns was full with at least one peer in it.
C39_Witness ==
    /\ last.op = "did_recv_SUBSCRIBE"
    /\ accept_unsol_conn
    /\ Closed(out, last.t)
    /\ ret = -1
    /\ unsol_conns # {}
    /\ Cardinality(unsol_conns) = max_unsol_conns
    /\ ~check_tranport_present(Node, last.t)

\* C40: when did_recv has handled a response to its end (the block handed to
\* the delegate, an RPC error, or an id that is not in block_store) and the
\* buffer ends there, counter and resp_id are 0, ready for the id of the next
\* response.
C40_DecoderResetAfterResponse ==
    (abci # <<>> /\ abci.outcome \in {"success", "error", "unknown"})
        => abci.counter = 0 /\ abci.resp_id = 0

====
